---- MODULE Spec2Model ----
(***************************************************************************)
(* A model of the voice server's conversation orchestration and its        *)
(* resilience layer.                                                       *)
(*                                                                         *)
(*   Spec    one VoiceSession (voice-session/index): transcript fragments,  *)
(*           the silence timer, processUserInput with its generation       *)
(*           stream, retries and onDone continuation, and end().  The      *)
(*           circuit in front of generation is shared with every other     *)
(*           session, so here its answer to a call is an input.  The       *)
(*           caller repeats one word.                                      *)
(*   SpecCall  the same session while the call stays up, for a number the   *)
(*           server knows no property for, with a caller whose fragments   *)
(*           can be suffixes of one another.                               *)
(*   SpecCB  one CircuitBreaker (utils/circuit-breaker) shared by every    *)
(*           session of the process: execute calls arrive, their wrapped   *)
(*           functions complete in any order, the clock advances.          *)
(*   SpecEnd  the session's start(), its duration limits and its end(),    *)
(*           with the transport's stop and close messages arriving at any  *)
(*           time; SpecEndFair adds that a pending grace timer fires.      *)
(*   SpecRetry  one withRetry call (utils/retry) and the errors its        *)
(*           function raises.                                              *)
(*   SpecHistory  the appends of a long conversation to the bounded        *)
(*           conversation history.                                         *)
(*   SpecRegistry  the process-wide registry of circuits by name.          *)
(*   SpecListen  the session's segmenter alone: fragments, blank ones       *)
(*           included, and the silence timer, around one generation.       *)
(*   SpecAdapter  the adapter of one external service: the circuit's       *)
(*           execute around withRetry around the attempts of a call, and   *)
(*           the timeout timers the attempts arm.                          *)
(*   SpecSpeak  the synthesis channel's addText against the deltas of a    *)
(*           reply, with the socket closing and reopening.                 *)
(*   SpecVerify  handleVerificationAttempt over the utterances of a caller *)
(*           the phone lookup has not found.                               *)
(*   SpecShutdown  gracefulShutdown and the sessions the process tracks;   *)
(*           SpecShutdownFair adds that what it awaits settles.            *)
(***************************************************************************)
EXTENDS Integers, Sequences, FiniteSets, TLC

(***************************************************************************)
(* Bounds of the model.                                                    *)
(***************************************************************************)
\* execute calls made on the circuit in one behaviour
MaxCalls == 6
\* options.timeout, in clock ticks (the code counts milliseconds)
TimeoutTicks == 2
\* clock ticks in one behaviour
MaxTicks == 5
\* final fragments accumulated for one utterance
MaxFinals == 2
\* utterances one session dispatches
MaxRuns == 2
\* generation tokens streamed for one utterance (over all its attempts)
MaxTokens == 1
\* end() calls on one session
MaxEnds == 1
\* pieces of text passed to the synthesis channel
MaxPieces == 4
\* SHUTDOWN_TIMEOUT_MS, in polls of the wait loop
ShutdownTicks == 3
\* shutdown signals the process receives
MaxSignals == 2
\* timeout timers of settled attempts pending at once
MaxPending == 2
\* utterances of one caller that reach handleVerificationAttempt
MaxAttempts == 5
\* the largest options.maxRetries a caller of withRetry passes
MaxRetriesOption == 3
\* getCircuitBreaker calls in one process lifetime
MaxGets == 4
\* messages appended to one session's history
MaxAppends == 102

(***************************************************************************)
(* Program constants: the options the OpenAI adapter gives its circuit.    *)
(***************************************************************************)
FailureThreshold == 3
SuccessThreshold == 2
\* streamLLMResponse: withRetry({ maxRetries: 2, ... })
maxRetries == 2
\* VoiceSession constructor: verificationData.maxPrompts
maxPrompts == 3
\* MAX_CONVERSATION_MESSAGES
MAX_CONVERSATION_MESSAGES == 100

VARIABLES
    \* ---- CircuitBreaker ----
    circuit,        \* [state, failures, successes, lastFailureTime]
    now,            \* Date.now()
    inFlight,       \* calls whose fn was invoked while CLOSED and has not settled
    trials,         \* calls whose fn was invoked while HALF_OPEN and has not settled
    calls,          \* execute calls made so far
    rejected,       \* execute calls that threw CircuitOpenError
    \* ---- observers of the circuit (history variables, not program state) ----
    last,           \* [ev, from, fails]: the last step, and the state and failure count it started in
    fromClosed,     \* failed completions in a row since CLOSED with failures = 0; -1: not counting
    hoSucc,         \* successful completions in a row since OPEN -> HALF_OPEN; -1: not counting
    streak,         \* failed completions since the last successful one (or reset)
    reopenedAt,     \* time of the latest failure that completed in HALF_OPEN; -1: none
    \* ---- VoiceSession ----
    started,             \* start() has run
    speech,              \* the fragments the transcription channel may deliver in this call
    hasVerifier,         \* this.verifier (and propertyContext) is not null
    audioOpen,           \* this.audio holds a live deepgram connection and tts channel
    verificationData,    \* [state, claimedName, claimedUnit, promptCount, createdUnverifiedRequest]
    conversationHistory, \* sequence of [role, content]
    currentTranscript,   \* the accumulation buffer, a sequence of characters
    isProcessing,
    silenceTimer,        \* the timer of the latest silenceTimer handle is pending
    autoEndTimer,        \* the auto-end timer is pending
    endTimers,           \* pending "setTimeout(() => this.end(), ...)" timers
    runs,                \* processUserInput invocations that passed the guard: [pc, attempt, fullResponse, vd, barged, kept]
                         \* (observer's marks: barged, a fragment arrived while its stream was running;
                         \*  kept, how much of fullResponse was streamed by attempts that failed)
    ending,              \* end() calls awaiting handleEndSession: for each, whether the
                         \* silenceTimer handle it was given is still the latest one
    \* ---- observers of the session (history variables, not program state) ----
    finals,              \* the final fragments received since the previous emission
    emittedJoin,         \* the latest emission was the space-joined concatenation of its final fragments
    fwdAfterBargeIn,     \* a token or flush of a run went to synthesis after a fragment arrived during it
    savedAfterBargeIn,   \* the reply of such a run was appended to conversationHistory
    requests,            \* createUnverifiedRequest calls that went on to create a request
                         \*   (2: two or more)
    segObs               \* the silence timer against the fragments:
                         \*   since: what has arrived since the pending timer was armed
                         \*     ("fresh": nothing, "blank": a fragment of white space only,
                         \*      "text": a fragment with text),
                         \*   emitted: the same, at the worst, for the timers that emitted an utterance,
                         \*   interimKept: no interim fragment has changed the buffer

sessVars == <<started, speech, hasVerifier, audioOpen, verificationData, conversationHistory,
              currentTranscript, isProcessing, silenceTimer, autoEndTimer, endTimers,
              runs, ending>>
sessObsRest == <<finals, segObs, emittedJoin, fwdAfterBargeIn, savedAfterBargeIn>>
sessObs == <<sessObsRest, requests>>

cbVars == <<circuit, now, inFlight, trials, calls, rejected>>
cbObs == <<last, fromClosed, hoSucc, streak, reopenedAt>>

VARIABLES
    \* ---- one withRetry call ----
    retry,          \* [maxRetries, options, pc, attempt, delayMs, lastError, settled, returned]
                    \* (settled: the error withRetry threw; returned: the value it returned)
    \* ---- observer of the call (history variable, not program state) ----
    retryObs        \* [invoked, delays, raised, resolved]: fn invocations, sleeps taken,
                    \* the errors fn raised, the value fn resolved with

VARIABLES
    \* ---- observer of conversationHistory (history variable) ----
    historyLog      \* every entry ever appended, in the order appended

VARIABLES
    \* ---- VoiceSession: start, end and the duration limits ----
    startPending,   \* start() is at one of its waits
    sessionRef,     \* the media-stream handler's "session" variable holds the session
    stopAt,         \* the end() call of the 'stop' message: its place in ending; 0: no 'stop' yet; -1: handled
    durationTimers, \* [softLimitTimer, hardLimitTimer (pending), hasHitSoftLimit]
    graceTimers,    \* pending "setTimeout(() => ctx.end(), 8000)" timers
    endingAudio,    \* for each end() call in ending: this.audio was set when it was called
    \* ---- observer of these (history variable, not program state) ----
    govObs          \* [softSpoken: times the soft-limit message was spoken,
                    \*  hardFired, hardLive, hardSpoken: the hard-limit timer fired, on a session no
                    \*  end() had finished for, and its message went to synthesis,
                    \*  graceEnded: the grace timer called end(),
                    \*  finalised: handleEndSession runs that tracked costs and cleaned up (2: two or more),
                    \*  lateIntervention: a limit fired after an end() not due to the hard limit had finished]

VARIABLES
    circuits,       \* the registry map: name -> the circuit it holds (0: no entry)
    breakers,       \* the CircuitBreaker objects constructed so far, in order:
                    \*   [options: the constructor's options, cb: the object's fields]
    handles,        \* the references handed out: [name, options, id] for every
                    \*   getCircuitBreaker(name, options) and the circuit it returned
    gets,           \* getCircuitBreaker calls made
    lastStats       \* what the last getAllCircuitStats() returned

VARIABLES
    service,        \* the external service whose adapter is called
    timeoutTimers,  \* the pending timeout timers the adapter has armed: [live: the timer
                    \*   of the attempt under way is pending, stale: pending timers of
                    \*   attempts that have resolved or rejected]
    adapterObs      \* one adapter call after another, observed:
                    \*   entry: the circuit's failure count when the call was admitted,
                    \*   aborts: attempts of the call that ended by the stream timeout,
                    \*   failedUses: calls in a row in which the service failed,
                    \*   apology: the call's error reached processUserInput's catch

VARIABLES
    \* ---- one synthesis channel (createElevenLabsConnection) ----
    tts,            \* [isReady, textBuffer]: the socket is open; the text held back
    \* ---- observer of the channel (history variable, not program state) ----
    heard,          \* the text sent to synthesis so far, message after message
    \* ---- observer of the verification (history variable, not program state) ----
    attemptLog,     \* what each handleVerificationAttempt call parsed from its
                    \*   utterance: [name, unit], a name, a unit number
    \* ---- the process and its shutdown (server/session-manager) ----
    shut,           \* [isShuttingDown, pc: where gracefulShutdown waits, elapsed: Date.now() -
                    \*   startTime at its last test, activeSessions, ended: the sessions the
                    \*   force-end loop has called end() on]
    \* ---- observer of the shutdown (history variable, not program state) ----
    signals         \* shutdown signals received

retryVars == <<retry, retryObs>>
regVars == <<circuits, breakers, handles, gets, lastStats>>
adapterVars == <<service, adapterObs, timeoutTimers>>
shutVars == <<shut, signals>>
edgeVars == <<tts, heard, attemptLog, shutVars>>
libVars == <<retryVars, historyLog, regVars, adapterVars, edgeVars>>
govVars == <<startPending, sessionRef, stopAt, durationTimers, graceTimers, endingAudio>>
vars == <<cbVars, cbObs, sessVars, sessObs, libVars, govVars, govObs>>

CircuitStates == {"CLOSED", "OPEN", "HALF_OPEN"}

(***************************************************************************)
(* class CircuitBreaker                                                    *)
(***************************************************************************)
\* constructor: state = 'CLOSED', failures = successes = lastFailureTime = 0
NewCircuit == [state |-> "CLOSED", failures |-> 0, successes |-> 0, lastFailureTime |-> 0]

\* transitionTo(newState): only the state changes (the rest is logging)
transitionTo(cb, newState) == [cb EXCEPT !.state = newState]

\* (mutant) the timeout test passes one tick early
shouldAttemptReset_early(cb, t) == t - cb.lastFailureTime >= TimeoutTicks - 1

\* shouldAttemptReset(): Date.now() - lastFailureTime >= options.timeout
shouldAttemptReset(cb, t) == t - cb.lastFailureTime >= TimeoutTicks

\* (mutant) a timed-out OPEN circuit is closed without a trial
ExecuteEnter_close(cb, t) ==
    IF cb.state = "OPEN" /\ shouldAttemptReset(cb, t)
    THEN [transitionTo(cb, "CLOSED") EXCEPT !.successes = 0]
    ELSE cb

\* (mutant) a rejected call restarts the timeout
ExecuteEnter_touch(cb, t) ==
    IF cb.state = "OPEN" /\ shouldAttemptReset(cb, t)
    THEN [transitionTo(cb, "HALF_OPEN") EXCEPT !.successes = 0]
    ELSE IF cb.state = "OPEN" THEN [cb EXCEPT !.lastFailureTime = t] ELSE cb

\* execute(), up to the fail-fast test: OPEN and timed out -> HALF_OPEN, successes = 0
ExecuteEnter(cb, t) ==
    IF cb.state = "OPEN" /\ shouldAttemptReset(cb, t)
    THEN [transitionTo(cb, "HALF_OPEN") EXCEPT !.successes = 0]
    ELSE cb

\* execute(): "if (this.state === 'OPEN') throw new CircuitOpenError"
FailFast(cb) == cb.state = "OPEN"

\* (mutant) a success in CLOSED takes one failure off instead of clearing the count
onSuccess_decrement(cb) ==
    LET c1 == [cb EXCEPT !.failures = IF @ > 0 THEN @ - 1 ELSE 0]
    IN  IF c1.state = "HALF_OPEN"
        THEN LET c2 == [c1 EXCEPT !.successes = @ + 1]
             IN  IF c2.successes >= SuccessThreshold
                 THEN [transitionTo(c2, "CLOSED") EXCEPT !.successes = 0]
                 ELSE c2
        ELSE c1

\* (mutant) the circuit closes one success late
onSuccess_late(cb) ==
    LET c1 == [cb EXCEPT !.failures = 0]
    IN  IF c1.state = "HALF_OPEN"
        THEN LET c2 == [c1 EXCEPT !.successes = @ + 1]
             IN  IF c2.successes > SuccessThreshold
                 THEN [transitionTo(c2, "CLOSED") EXCEPT !.successes = 0]
                 ELSE c2
        ELSE c1

\* onSuccess()
onSuccess(cb) ==
    LET c1 == [cb EXCEPT !.failures = 0]
    IN  IF c1.state = "HALF_OPEN"
        THEN LET c2 == [c1 EXCEPT !.successes = @ + 1]
             IN  IF c2.successes >= SuccessThreshold
                 THEN [transitionTo(c2, "CLOSED") EXCEPT !.successes = 0]
                 ELSE c2
        ELSE c1

\* (mutant) the circuit opens one failure late
onFailure_late(cb, t) ==
    LET c1 == [cb EXCEPT !.failures = @ + 1, !.lastFailureTime = t]
    IN  IF c1.state = "HALF_OPEN"
        THEN [transitionTo(c1, "OPEN") EXCEPT !.successes = 0]
        ELSE IF c1.failures > FailureThreshold
             THEN transitionTo(c1, "OPEN")
             ELSE c1

\* (mutant) a failure in HALF_OPEN reopens the circuit without a new timestamp
onFailure_staleTimestamp(cb, t) ==
    LET c1 == [cb EXCEPT !.failures = @ + 1,
                         !.lastFailureTime = IF cb.state = "HALF_OPEN" THEN @ ELSE t]
    IN  IF c1.state = "HALF_OPEN"
        THEN [transitionTo(c1, "OPEN") EXCEPT !.successes = 0]
        ELSE IF c1.failures >= FailureThreshold
             THEN transitionTo(c1, "OPEN")
             ELSE c1

\* (mutant) a failed trial reopens the circuit with its successes still counted
onFailure_keepSuccesses(cb, t) ==
    LET c1 == [cb EXCEPT !.failures = @ + 1, !.lastFailureTime = t]
    IN  IF c1.state = "HALF_OPEN"
        THEN transitionTo(c1, "OPEN")
        ELSE IF c1.failures >= FailureThreshold
             THEN transitionTo(c1, "OPEN")
             ELSE c1

\* onFailure(error)
onFailure(cb, t) ==
    LET c1 == [cb EXCEPT !.failures = @ + 1, !.lastFailureTime = t]
    IN  IF c1.state = "HALF_OPEN"
        THEN [transitionTo(c1, "OPEN") EXCEPT !.successes = 0]
        ELSE IF c1.failures >= FailureThreshold
             THEN transitionTo(c1, "OPEN")
             ELSE c1

\* reset()
reset(cb) == transitionTo([cb EXCEPT !.failures = 0, !.successes = 0], "CLOSED")

(***************************************************************************)
(* The observers, advanced by every step of the circuit.                   *)
(***************************************************************************)
Observe(ev, cb, cb2, t) ==
    /\ last' = [ev |-> ev, from |-> cb.state, fails |-> cb.failures]
    /\ fromClosed' =
         IF cb2.state = "CLOSED" /\ cb2.failures = 0 THEN 0
         ELSE IF ev = "failure" THEN (IF fromClosed >= 0 THEN fromClosed + 1 ELSE -1)
         ELSE IF cb2.state = cb.state /\ ev # "success" THEN fromClosed
         ELSE -1
    /\ hoSucc' =
         IF cb.state = "OPEN" /\ cb2.state = "HALF_OPEN" THEN 0
         ELSE IF ev = "success"
              THEN (IF hoSucc >= 0 /\ hoSucc < SuccessThreshold THEN hoSucc + 1 ELSE -1)
         ELSE IF ev \in {"failure", "reset"} THEN -1
         ELSE hoSucc
    /\ streak' =
         IF ev \in {"success", "reset"} THEN 0
         ELSE IF ev = "failure" THEN streak + 1
         ELSE streak
    /\ reopenedAt' =
         IF ev = "failure" /\ cb.state = "HALF_OPEN" THEN t ELSE reopenedAt

(***************************************************************************)
(* Steps of the circuit.                                                   *)
(***************************************************************************)
\* A session calls execute(fn): the synchronous part, up to "await fn()".
Execute ==
    /\ calls < MaxCalls
    /\ calls' = calls + 1
    /\ LET cb1 == ExecuteEnter(circuit, now)
       IN  /\ circuit' = cb1
           /\ IF FailFast(cb1)
              THEN /\ rejected' = rejected + 1
                   /\ UNCHANGED <<inFlight, trials>>
                   /\ Observe("reject", circuit, cb1, now)
              ELSE /\ IF cb1.state = "HALF_OPEN"
                      THEN trials' = trials + 1 /\ UNCHANGED inFlight
                      ELSE inFlight' = inFlight + 1 /\ UNCHANGED trials
                   /\ UNCHANGED rejected
                   /\ Observe("invoke", circuit, cb1, now)
    /\ UNCHANGED <<now, sessVars, sessObs, libVars, govVars, govObs>>

\* fn() of some call in flight resolves: onSuccess()
FnSucceeds ==
    /\ \/ inFlight > 0 /\ inFlight' = inFlight - 1 /\ UNCHANGED trials
       \/ trials > 0 /\ trials' = trials - 1 /\ UNCHANGED inFlight
    /\ circuit' = onSuccess(circuit)
    /\ Observe("success", circuit, circuit', now)
    /\ UNCHANGED <<now, calls, rejected, sessVars, sessObs, libVars, govVars, govObs>>

\* fn() of some call in flight rejects: onFailure(error)
FnFails ==
    /\ \/ inFlight > 0 /\ inFlight' = inFlight - 1 /\ UNCHANGED trials
       \/ trials > 0 /\ trials' = trials - 1 /\ UNCHANGED inFlight
    /\ circuit' = onFailure(circuit, now)
    /\ Observe("failure", circuit, circuit', now)
    /\ UNCHANGED <<now, calls, rejected, sessVars, sessObs, libVars, govVars, govObs>>

\* reset() is called
Reset ==
    /\ circuit' = reset(circuit)
    /\ circuit' # circuit
    /\ Observe("reset", circuit, circuit', now)
    /\ UNCHANGED <<now, inFlight, trials, calls, rejected, sessVars, sessObs, libVars, govVars, govObs>>

\* time passes
Tick ==
    /\ now < TimeoutTicks + MaxTicks
    /\ now' = now + 1
    /\ Observe("tick", circuit, circuit, now)
    /\ UNCHANGED <<circuit, inFlight, trials, calls, rejected, sessVars, sessObs, libVars, govVars, govObs>>

(***************************************************************************)
(* The registry of circuits (utils/circuit-breaker): one module-level Map. *)
(***************************************************************************)
\* the dependency names the adapters register
Names == {"openai", "deepgram"}

DEFAULT_OPTIONS == [failureThreshold |-> 5, successThreshold |-> 2, timeout |-> 30000]

\* the options a caller may pass: none, one field, or the adapters' own
PartialOptions ==
    { [k \in {} |-> 0],
      [timeout |-> 60000],
      [failureThreshold |-> 3, successThreshold |-> 2, timeout |-> 30000] }

\* "{ name, ...DEFAULT_OPTIONS, ...options }"
Spread(name, options) == [name |-> name] @@ options @@ DEFAULT_OPTIONS

\* (mutant) the map is never found to hold the name
has_never(map, name) == FALSE

\* circuits.has(name)
has(map, name) == map[name] # 0

\* get stats(), as far as the model keeps the fields
stats(breaker) ==
    [name |-> breaker.options.name, state |-> breaker.cb.state, failures |-> breaker.cb.failures]

\* getCircuitBreaker(name, options): the caller keeps what it returns
GetCircuitBreaker ==
    /\ gets < MaxGets
    /\ gets' = gets + 1
    /\ \E name \in Names, options \in PartialOptions :
          /\ IF ~has(circuits, name)
             THEN /\ breakers' = Append(breakers, [options |-> Spread(name, options),
                                                   cb |-> NewCircuit])
                  /\ circuits' = [circuits EXCEPT ![name] = Len(breakers) + 1]
             ELSE UNCHANGED <<circuits, breakers>>
          /\ handles' = handles \cup {[name |-> name, options |-> options,
                                      id |-> circuits'[name]]}
    /\ UNCHANGED <<lastStats, cbVars, cbObs, sessVars, sessObs, retryVars, historyLog, adapterVars, edgeVars, govVars,
                   govObs>>

\* a holder of a reference calls execute(fn) on it and fn settles (the clock
\* stands still here: a circuit that has opened fails fast from then on)
ExecuteOn ==
    /\ \E h \in handles, resolves \in BOOLEAN :
          LET cb1 == ExecuteEnter(breakers[h.id].cb, 0)
              cb2 == IF FailFast(cb1) THEN cb1
                     ELSE IF resolves THEN onSuccess(cb1)
                     ELSE onFailure(cb1, 0)
          IN  breakers' = [breakers EXCEPT ![h.id].cb = cb2]
    /\ UNCHANGED <<circuits, handles, gets, lastStats, cbVars, cbObs, sessVars, sessObs,
                   retryVars, historyLog, adapterVars, edgeVars, govVars, govObs>>

\* getAllCircuitStats(): the stats of every value of the map
GetAllCircuitStats ==
    /\ lastStats' = [i \in 1..Len(breakers) |-> stats(breakers[i])]
    /\ UNCHANGED <<circuits, breakers, handles, gets, cbVars, cbObs, sessVars, sessObs,
                   retryVars, historyLog, adapterVars, edgeVars, govVars, govObs>>

(***************************************************************************)
(* withRetry (utils/retry).  An error is what isRetryable reads of it: the *)
(* words of its message, its name and its code.                            *)
(***************************************************************************)
NoError == [message |-> <<>>, name |-> "", code |-> ""]

\* the errors fn may raise: two upstream statuses, the stream timeout the
\* OpenAI adapter throws, a reset connection, and a rejected request
Errors ==
    { [message |-> <<"503", "Service", "Unavailable">>, name |-> "Error", code |-> ""],
      [message |-> <<"LLM", "response", "Timeout">>, name |-> "Error", code |-> ""],
      [message |-> <<"aborted">>, name |-> "Error", code |-> "ECONNRESET"],
      [message |-> <<"400", "Bad", "Request">>, name |-> "BadRequestError", code |-> ""] }

\* what fn may resolve with
Values == {"v1", "v2"}

\* streamLLMResponse: options.retryableErrors
retryableErrors == {"429", "500", "502", "503", "504", "timeout", "ECONNRESET"}

\* String.prototype.toLowerCase, on the words that have capitals
toLowerCase(w) ==
    CASE w = "Timeout" -> "timeout"
      [] w = "ECONNRESET" -> "econnreset"
      [] w = "Service" -> "service"
      [] w = "Unavailable" -> "unavailable"
      [] w = "LLM" -> "llm"
      [] w = "Bad" -> "bad"
      [] w = "Request" -> "request"
      [] w = "Error" -> "error"
      [] w = "AbortError" -> "aborterror"
      [] w = "BadRequestError" -> "badrequesterror"
      [] OTHER -> w

\* isRetryable(error, retryableErrors): some retryable string, lowercased,
\* occurs in the lowercased "message name code"
isRetryable(error, retryable) ==
    LET errorString == {toLowerCase(error.message[i]) : i \in 1..Len(error.message)}
                           \cup {toLowerCase(error.name), toLowerCase(error.code)}
    IN  \E r \in retryable : toLowerCase(r) \in errorString

\* (mutant) every error is retried
Caught_retryAll(attempt, error, max) ==
    IF attempt = max THEN "break" ELSE "sleep"

\* (mutant) one attempt more than maxRetries + 1
Caught_oneMore(attempt, error, max) ==
    IF attempt = max + 1 THEN "break"
    ELSE IF ~isRetryable(error, retryableErrors) THEN "throw"
    ELSE "sleep"

\* withRetry, the catch block: what follows a failed attempt
Caught(attempt, error, max) ==
    IF attempt = max THEN "break"
    ELSE IF ~isRetryable(error, retryableErrors) THEN "throw"
    ELSE "sleep"

\* (mutant) the first error is kept
LastError_first(previous, error) == IF previous = NoError THEN error ELSE previous

\* withRetry: "lastError = error as Error"
LastError(previous, error) == error

\* the delay options of a withRetry call (milliseconds): the defaults with the
\* baseDelayMs of the OpenAI and Deepgram adapters, with that of the
\* ElevenLabs adapter, and a caller that passes a low maxDelayMs
DelayOptions ==
    { [baseDelayMs |-> 500, maxDelayMs |-> 10000, backoffMultiplier |-> 2],
      [baseDelayMs |-> 1000, maxDelayMs |-> 10000, backoffMultiplier |-> 2],
      [baseDelayMs |-> 500, maxDelayMs |-> 1200, backoffMultiplier |-> 2] }

\* Math.random(), in tenths
Randoms == {0, 1, 5, 9}

\* Math.pow on naturals
RECURSIVE pow(_, _)
pow(b, e) == IF e = 0 THEN 1 ELSE b * pow(b, e - 1)

\* Math.min
min(a, b) == IF a <= b THEN a ELSE b

\* (mutant) the jitter is added after the cap
calculateDelay_jitterAfterCap(attempt, options, random) ==
    LET exponentialDelay == options.baseDelayMs * pow(options.backoffMultiplier, attempt)
        jitter == (random * 3 * exponentialDelay) \div 100
    IN  min(exponentialDelay, options.maxDelayMs) + jitter

\* calculateDelay(attempt, options), random being what Math.random() returns
calculateDelay(attempt, options, random) ==
    LET exponentialDelay == options.baseDelayMs * pow(options.backoffMultiplier, attempt)
        jitter == (random * 3 * exponentialDelay) \div 100
    IN  min(exponentialDelay + jitter, options.maxDelayMs)

\* withRetry(fn, options) is called: the loop starts and invokes fn
WithRetry ==
    /\ retry.pc = "idle"
    /\ \E max \in 0..MaxRetriesOption, options \in DelayOptions :
          retry' = [retry EXCEPT !.maxRetries = max, !.options = options,
                                 !.pc = "call", !.attempt = 0]
    /\ retryObs' = [retryObs EXCEPT !.invoked = 1]
    /\ UNCHANGED <<cbVars, cbObs, sessVars, sessObs, historyLog, regVars, adapterVars, edgeVars, govVars, govObs>>

\* "return await fn()": fn resolves
FnResolves ==
    /\ retry.pc = "call"
    /\ \E value \in Values :
          /\ retry' = [retry EXCEPT !.pc = "returned", !.returned = value]
          /\ retryObs' = [retryObs EXCEPT !.resolved = value]
    /\ UNCHANGED <<cbVars, cbObs, sessVars, sessObs, historyLog, regVars, adapterVars, edgeVars, govVars, govObs>>

\* fn rejects: the catch block, to the throw or to the sleep
FnRejects ==
    /\ retry.pc = "call"
    /\ \E error \in Errors, random \in Randoms :
          LET lastError == LastError(retry.lastError, error)
              next == Caught(retry.attempt, lastError, retry.maxRetries)
          IN  /\ retry' = [retry EXCEPT
                             !.lastError = lastError,
                             !.delayMs = IF next = "sleep"
                                         THEN calculateDelay(retry.attempt, retry.options, random)
                                         ELSE 0,
                             !.pc = IF next = "sleep" THEN "sleep" ELSE "thrown",
                             !.settled = IF next = "sleep" THEN NoError ELSE lastError]
              /\ retryObs' = [retryObs EXCEPT
                                !.raised = Append(@, error),
                                !.delays = IF next = "sleep" THEN @ + 1 ELSE @]
    /\ UNCHANGED <<cbVars, cbObs, sessVars, sessObs, historyLog, regVars, adapterVars, edgeVars, govVars, govObs>>

\* withRetry after its sleep: attempt++, and fn is invoked again
sleepEnds ==
    /\ retry.pc = "sleep"
    /\ retry' = [retry EXCEPT !.pc = "call", !.attempt = @ + 1, !.delayMs = 0]
    /\ retryObs' = [retryObs EXCEPT !.invoked = @ + 1]
    /\ UNCHANGED <<cbVars, cbObs, sessVars, sessObs, historyLog, regVars, edgeVars, govVars, govObs>>

\* the sleep ends
SleepEnds == sleepEnds /\ UNCHANGED adapterVars

(***************************************************************************)
(* The adapters (openai, deepgram, elevenlabs): circuit.execute around     *)
(* withRetry around the attempt.  One call after another; calls that       *)
(* overlap are the subject of the circuit's own specification.             *)
(***************************************************************************)
\* what the OpenAI SDK raises when the AbortController aborts the request
AbortError == [message |-> <<"Request", "was", "aborted.">>, name |-> "AbortError", code |-> ""]

\* what an attempt may raise before the adapter's own catch
RawErrors == IF service = "openai" THEN Errors \cup {AbortError} ELSE Errors

\* what the service makes of a connection: for Deepgram the outcome comes
\* through the Open event, the Error event or the connection timeout, after
\* createDeepgramConnection has returned
Connections == IF service = "deepgram" THEN {"open", "error", "timeout"} ELSE {"open"}

\* (mutant) the abort is rethrown as it is
streamCatch_rethrow(error) == error

\* streamLLMWithTracking, catch: an AbortError becomes Error('LLM response timeout')
streamCatch(error) ==
    IF error.name = "AbortError"
    THEN [message |-> <<"LLM", "response", "timeout">>, name |-> "Error", code |-> ""]
    ELSE error

\* (mutant) the circuit is told of every failed attempt
SeenByCircuit_everyAttempt(next) == TRUE

\* execute(() => withRetry(...)): the circuit sees a failure when withRetry
\* throws, not when it sleeps before another attempt
SeenByCircuit(next) == next # "sleep"

\* the attempt's own code clears its timeout timer when it settles:
\* streamLLMWithTracking in its finally; createDeepgramConnection only when
\* the connection closes, setupWebSocket nowhere
ClearsTimer(svc) == svc = "openai"

\* an attempt starts: its timeout timer is armed
Armed(t) == [t EXCEPT !.live = TRUE]

\* an attempt settles: its timer has fired, or is cleared, or stays pending
Settled(t, fired, cleared) ==
    [live |-> FALSE,
     stale |-> IF t.live /\ ~fired /\ ~cleared THEN t.stale + 1 ELSE t.stale]

\* the adapter is called: execute() to "await fn()", and withRetry to its
\* first attempt
AdapterCall ==
    /\ retry.pc \in {"idle", "returned", "thrown"}
    /\ calls < MaxCalls
    /\ timeoutTimers.stale < MaxPending
    /\ calls' = calls + 1
    /\ LET cb1 == ExecuteEnter(circuit, now)
       IN  /\ circuit' = cb1
           /\ IF FailFast(cb1)
              THEN /\ rejected' = rejected + 1
                   /\ UNCHANGED <<inFlight, trials, retryObs>>
                   /\ retry' = [retry EXCEPT !.pc = "idle"]
                   /\ adapterObs' = [adapterObs EXCEPT !.apology = (service = "openai")]
                   /\ UNCHANGED timeoutTimers
                   /\ Observe("reject", circuit, cb1, now)
              ELSE /\ IF cb1.state = "HALF_OPEN"
                      THEN trials' = trials + 1 /\ UNCHANGED inFlight
                      ELSE inFlight' = inFlight + 1 /\ UNCHANGED trials
                   /\ UNCHANGED rejected
                   /\ \E options \in DelayOptions :
                         retry' = [maxRetries |-> maxRetries, options |-> options, pc |-> "call",
                                   attempt |-> 0, delayMs |-> 0, lastError |-> NoError,
                                   settled |-> NoError, returned |-> ""]
                   /\ retryObs' = [invoked |-> 1, delays |-> 0, raised |-> <<>>, resolved |-> ""]
                   /\ adapterObs' = [adapterObs EXCEPT !.entry = cb1.failures, !.aborts = 0,
                                                       !.apology = FALSE]
                   /\ timeoutTimers' = Armed(timeoutTimers)
                   /\ Observe("invoke", circuit, cb1, now)
    /\ UNCHANGED <<now, service, sessVars, sessObs, historyLog, regVars, edgeVars, govVars, govObs>>

\* an attempt resolves: withRetry returns, and execute's onSuccess()
AttemptResolves ==
    /\ retry.pc = "call"
    /\ \/ inFlight > 0 /\ inFlight' = inFlight - 1 /\ UNCHANGED trials
       \/ trials > 0 /\ trials' = trials - 1 /\ UNCHANGED inFlight
    /\ \E value \in Values, connection \in Connections :
          /\ retry' = [retry EXCEPT !.pc = "returned", !.returned = value]
          /\ retryObs' = [retryObs EXCEPT !.resolved = value]
          /\ adapterObs' = [adapterObs EXCEPT
                               !.failedUses = IF connection = "open" THEN 0 ELSE @ + 1]
    /\ timeoutTimers' = Settled(timeoutTimers, FALSE, ClearsTimer(service))
    /\ circuit' = onSuccess(circuit)
    /\ Observe("success", circuit, circuit', now)
    /\ UNCHANGED <<now, calls, rejected, service, sessVars, sessObs, historyLog, regVars,
                   edgeVars, govVars, govObs>>

\* an attempt rejects: withRetry's catch, and when withRetry throws,
\* execute's onFailure() and the caller's catch
AttemptRejects ==
    /\ retry.pc = "call"
    /\ service # "deepgram"
    /\ \E raw \in RawErrors, random \in Randoms, byTimer \in BOOLEAN :
          LET error == IF service = "openai" THEN streamCatch(raw) ELSE raw
              \* the attempt was ended by its timeout timer
              fired == IF service = "openai" THEN raw = AbortError ELSE byTimer
              lastError == LastError(retry.lastError, error)
              next == Caught(retry.attempt, lastError, retry.maxRetries)
          IN  /\ retry' = [retry EXCEPT
                             !.lastError = lastError,
                             !.delayMs = IF next = "sleep"
                                         THEN calculateDelay(retry.attempt, retry.options, random)
                                         ELSE 0,
                             !.pc = IF next = "sleep" THEN "sleep" ELSE "thrown",
                             !.settled = IF next = "sleep" THEN NoError ELSE lastError]
              /\ retryObs' = [retryObs EXCEPT
                                !.raised = Append(@, error),
                                !.delays = IF next = "sleep" THEN @ + 1 ELSE @]
              /\ adapterObs' = [adapterObs EXCEPT
                                   !.aborts = IF raw = AbortError THEN @ + 1 ELSE @,
                                   !.failedUses = IF next = "sleep" THEN @ ELSE @ + 1,
                                   !.apology = (next # "sleep" /\ service = "openai")]
              /\ service = "openai" => ~byTimer
              /\ timeoutTimers' = Settled(timeoutTimers, fired, ClearsTimer(service))
              /\ IF next = "sleep"
                 THEN UNCHANGED <<inFlight, trials>>
                 ELSE \/ inFlight > 0 /\ inFlight' = inFlight - 1 /\ UNCHANGED trials
                      \/ trials > 0 /\ trials' = trials - 1 /\ UNCHANGED inFlight
              /\ IF SeenByCircuit(next)
                 THEN /\ circuit' = onFailure(circuit, now)
                      /\ Observe("failure", circuit, circuit', now)
                 ELSE UNCHANGED <<circuit, cbObs>>
    /\ UNCHANGED <<now, calls, rejected, service, sessVars, sessObs, historyLog, regVars,
                   edgeVars, govVars, govObs>>

\* withRetry's next attempt starts
AttemptRestarts ==
    /\ timeoutTimers.stale < MaxPending
    /\ sleepEnds
    /\ timeoutTimers' = Armed(timeoutTimers)
    /\ UNCHANGED <<service, adapterObs>>

\* a timeout timer of an attempt that has settled fires; its callback finds
\* nothing to do (the promise is settled, the connection is established)
StaleTimerFires ==
    /\ timeoutTimers.stale > 0
    /\ timeoutTimers' = [timeoutTimers EXCEPT !.stale = @ - 1]
    /\ UNCHANGED <<service, adapterObs, retryVars, cbVars, cbObs, sessVars, sessObs, historyLog,
                   regVars, edgeVars, govVars, govObs>>

(***************************************************************************)
(* The synthesis channel (elevenlabs): addText and the socket's events.    *)
(* Text is a sequence of pieces; the control tag [END_CALL] is the piece   *)
(* "[END" followed by the piece "_CALL]".                                  *)
(***************************************************************************)
\* the content of one delta of the generation stream, as onToken passes it on
Deltas == { <<"ok">>, <<"[END", "_CALL]">>, <<"[END">>, <<"_CALL]">> }

\* the text holds a control tag
HasTag(text) ==
    \E i \in 1..(Len(text) - 1) : text[i] = "[END" /\ text[i + 1] = "_CALL]"

\* text.replace(/\[[A-Z_]+\]/g, ''): one pass from left to right, every match removed
RECURSIVE replaceTag(_)
replaceTag(text) ==
    IF Len(text) < 2 THEN text
    ELSE IF text[1] = "[END" /\ text[2] = "_CALL]" THEN replaceTag(SubSeq(text, 3, Len(text)))
    ELSE <<text[1]>> \o replaceTag(Tail(text))

\* addText: the chain of replace calls; [END_CALL] is matched by its own
\* pattern and again by the catch-all for bracketed tags
cleanText(textToSend) == replaceTag(replaceTag(textToSend))

\* addText(text)
AddText ==
    /\ Len(heard) + Len(tts.textBuffer) < MaxPieces
    /\ \E text \in Deltas :
          IF ~tts.isReady
          THEN /\ tts' = [tts EXCEPT !.textBuffer = @ \o text]
               /\ UNCHANGED heard
          ELSE /\ tts' = [tts EXCEPT !.textBuffer = <<>>]
               /\ heard' = heard \o cleanText(tts.textBuffer \o text)
    /\ UNCHANGED <<attemptLog, shutVars, cbVars, cbObs, sessVars, sessObs, retryVars, historyLog, regVars,
                   adapterVars, govVars, govObs>>

\* ws.on('close'): isReady = false (the reconnection is under way)
SocketCloses ==
    /\ tts.isReady
    /\ tts' = [tts EXCEPT !.isReady = FALSE]
    /\ UNCHANGED <<heard, attemptLog, shutVars, cbVars, cbObs, sessVars, sessObs, retryVars, historyLog, regVars,
                   adapterVars, govVars, govObs>>

\* ws.on('open') of the reconnection: isReady = true
SocketOpens ==
    /\ ~tts.isReady
    /\ tts' = [tts EXCEPT !.isReady = TRUE]
    /\ UNCHANGED <<heard, attemptLog, shutVars, cbVars, cbObs, sessVars, sessObs, retryVars, historyLog, regVars,
                   adapterVars, govVars, govObs>>

(***************************************************************************)
(* The process's shutdown (server/session-manager): gracefulShutdown and   *)
(* the sessions the media-stream handlers track.  Time is counted in       *)
(* polls of the wait loop (the code sleeps 1000 ms between its tests).     *)
(***************************************************************************)
Sessions == {"s1", "s2", "s3"}

\* (mutant) the grace period never expires
Expired_never(elapsed) == FALSE

\* "if (elapsed >= SHUTDOWN_TIMEOUT_MS)"
Expired(elapsed) == elapsed >= ShutdownTicks

\* "console.log('[Shutdown] Graceful shutdown complete'); process.exit(0)"
Exited(sh) == [sh EXCEPT !.pc = "exited"]

\* the force-end loop "for (const session of activeSessions)": the next
\* session the iterator yields has end() called and awaited; a Set's iterator
\* skips what was deleted and yields what was added meanwhile
ForceNext(sh) ==
    LET rest == sh.activeSessions \ sh.ended
    IN  IF rest = {} THEN {Exited(sh)}
        ELSE {[sh EXCEPT !.pc = "ending", !.ended = @ \cup {session}] : session \in rest}

\* the top of "while (activeSessions.size > 0)" with the elapsed time read
WhileTop(sh, elapsed) ==
    IF sh.activeSessions = {} THEN {Exited(sh)}
    ELSE IF Expired(elapsed) THEN ForceNext([sh EXCEPT !.elapsed = elapsed])
    ELSE {[sh EXCEPT !.pc = "sleeping", !.elapsed = elapsed]}

shutRest ==
    <<tts, heard, attemptLog, cbVars, cbObs, sessVars, sessObs, retryVars, historyLog, regVars,
      adapterVars, govVars, govObs>>

\* the 'start' message of a call: trackSession(session)
TrackSession ==
    /\ shut.pc # "exited"
    /\ \E session \in Sessions \ (shut.activeSessions \cup shut.ended) :
          shut' = [shut EXCEPT !.activeSessions = @ \cup {session}]
    /\ UNCHANGED <<signals, shutRest>>

\* the 'stop' message or the close of a call's socket: untrackSession(session)
UntrackSession ==
    /\ shut.pc # "exited"
    /\ \E session \in shut.activeSessions :
          shut' = [shut EXCEPT !.activeSessions = @ \ {session}]
    /\ UNCHANGED <<signals, shutRest>>

\* SIGTERM or SIGINT: gracefulShutdown, to "await fastify.close()"
ShutdownSignal ==
    /\ shut.pc # "exited"
    /\ signals < MaxSignals
    /\ signals' = signals + 1
    /\ shut' = IF shut.isShuttingDown THEN shut
               ELSE [shut EXCEPT !.isShuttingDown = TRUE, !.pc = "closing"]
    /\ UNCHANGED shutRest

\* fastify.close() settles (an error is logged): "if (activeSessions.size > 0)",
\* startTime = Date.now(), and the first test of the loop
ServerCloses ==
    /\ shut.pc = "closing"
    /\ shut' \in WhileTop(shut, 0)
    /\ UNCHANGED <<signals, shutRest>>

\* the 1000 ms sleep of the wait loop ends, one poll or more after it began
PollTimerFires ==
    /\ shut.pc = "sleeping"
    /\ \E late \in 0..1 :
          shut' \in WhileTop(shut, min(shut.elapsed + 1 + late, ShutdownTicks + 1))
    /\ UNCHANGED <<signals, shutRest>>

\* the awaited session.end() settles (a rejection is caught and logged)
ForcedEndReturns ==
    /\ shut.pc = "ending"
    /\ shut' \in ForceNext(shut)
    /\ UNCHANGED <<signals, shutRest>>

(***************************************************************************)
(* Text.  A transcript is a sequence of characters; a reply is a sequence  *)
(* of generation tokens.                                                   *)
(***************************************************************************)
\* what the transcription channel may deliver: "a b", "b" and a blank fragment
Transcripts == {<<"a", " ", "b">>, <<"b">>, <<" ">>}
\* a caller who only ever says "b"
OneWord == {<<"b">>, <<" ">>}
\* a caller whose every fragment is the one word
Word == {<<"b">>}

\* what the generation channel may stream: words, a closing phrase, control tags
Tokens == {"ok", "bye", "[END_CALL]", "[CREATE_TICKET]", "[CREATE_UNVERIFIED]"}
ControlTags == {"[END_CALL]", "[CREATE_TICKET]", "[CREATE_UNVERIFIED]"}

\* String.prototype.trim
RECURSIVE trimStart(_)
trimStart(s) == IF s # <<>> /\ Head(s) = " " THEN trimStart(Tail(s)) ELSE s
RECURSIVE trimEnd(_)
trimEnd(s) ==
    IF s # <<>> /\ s[Len(s)] = " " THEN trimEnd(SubSeq(s, 1, Len(s) - 1)) ELSE s
trim(s) == trimEnd(trimStart(s))

\* String.prototype.endsWith
endsWith(s, t) == Len(t) <= Len(s) /\ SubSeq(s, Len(s) - Len(t) + 1, Len(s)) = t

\* response.includes(tag), a tag being one token
includes(response, tag) == \E i \in 1..Len(response) : response[i] = tag

\* cleanResponse: the control tags removed (no token is blank, so the final
\* trim() has nothing to remove)
RECURSIVE cleanResponse(_)
cleanResponse(response) ==
    IF response = <<>> THEN <<>>
    ELSE IF Head(response) \in ControlTags THEN cleanResponse(Tail(response))
    ELSE <<Head(response)>> \o cleanResponse(Tail(response))

\* onDone: closingPhrases.some(phrase => cleaned.toLowerCase().includes(phrase))
soundsLikeClosing(cleaned) == includes(cleaned, "bye")

(***************************************************************************)
(* class VoiceSession                                                      *)
(***************************************************************************)
\* (mutant) the oldest entries are kept
addToConversationHistory_keepOldest(history, role, content) ==
    LET pushed == Append(history, [role |-> role, content |-> content])
    IN  IF Len(pushed) > MAX_CONVERSATION_MESSAGES
        THEN SubSeq(pushed, 1, MAX_CONVERSATION_MESSAGES)
        ELSE pushed

\* addToConversationHistory(role, content): push, then keep the last MAX entries
addToConversationHistory(history, role, content) ==
    LET pushed == Append(history, [role |-> role, content |-> content])
    IN  IF Len(pushed) > MAX_CONVERSATION_MESSAGES
        THEN SubSeq(pushed, Len(pushed) - MAX_CONVERSATION_MESSAGES + 1, Len(pushed))
        ELSE pushed

\* handleTranscript: the accumulation of a final fragment
Accumulate(buffer, transcript) ==
    IF buffer # <<>> /\ ~endsWith(buffer, transcript)
    THEN buffer \o <<" ">> \o transcript
    ELSE transcript

\* (mutant) processUserInput leaves the flag unset
ProcessingFlagOnEntry_unset == FALSE

\* processUserInput: "this.isProcessing = true"
ProcessingFlagOnEntry == TRUE

\* (mutant) a verification attempt is made in every state
Verifying_always(data) == TRUE

\* processUserInput: "if (this.verificationData.state === 'VERIFYING')"
Verifying(data) == data.state = "VERIFYING"

\* handleVerificationAttempt, up to the match: the claimed identity folded in
ClaimedIdentity(data, name, unit) ==
    LET gotNewInfo == (~data.claimedName /\ name) \/ (~data.claimedUnit /\ unit)
    IN  [data EXCEPT !.claimedName = @ \/ name,
                     !.claimedUnit = @ \/ unit,
                     !.promptCount = IF gotNewInfo THEN @ + 1 ELSE @]

\* handleVerificationAttempt, no match attempted: UNVERIFIED at maxPrompts
AfterPrompt(data) ==
    IF data.promptCount >= maxPrompts THEN [data EXCEPT !.state = "UNVERIFIED"] ELSE data

\* handleVerificationAttempt, after attemptMatch
AfterMatch(data, verified) ==
    [data EXCEPT !.state = IF verified THEN "VERIFIED" ELSE "UNVERIFIED"]

\* handleVerificationAttempt(ctx, text, data) for the utterances of a caller in
\* VERIFYING, one after another, each with what parseClaimedIdentity finds in
\* it and, when a match is attempted, what attemptMatch answers
HandleVerificationAttempt ==
    /\ started /\ hasVerifier
    /\ Verifying(verificationData)
    /\ Len(attemptLog) < MaxAttempts
    /\ \E name \in BOOLEAN, unit \in BOOLEAN, verified \in BOOLEAN :
          LET claimed == ClaimedIdentity(verificationData, name, unit)
          IN  /\ verificationData' =
                    IF claimed.claimedName /\ claimed.claimedUnit
                    THEN AfterMatch(claimed, verified)
                    ELSE AfterPrompt(claimed)
              /\ attemptLog' = Append(attemptLog, [name |-> name, unit |-> unit])
    /\ UNCHANGED <<started, speech, hasVerifier, audioOpen, conversationHistory, currentTranscript,
                   isProcessing, silenceTimer, autoEndTimer, endTimers, runs, ending>>
    /\ UNCHANGED <<tts, heard, shutVars, sessObs, cbVars, cbObs, retryVars, historyLog, regVars, adapterVars,
                   govVars, govObs>>

\* the space-joined concatenation of fragments
RECURSIVE JoinSpace(_)
JoinSpace(frs) ==
    IF frs = <<>> THEN <<>>
    ELSE IF Len(frs) = 1 THEN frs[1]
    ELSE frs[1] \o <<" ">> \o JoinSpace(Tail(frs))

\* the runs inside processUserInput's guarded region (flag set, finally not reached)
Guarded == {r \in 1..Len(runs) : runs[r].pc \in {"verify", "stream", "backoff"}}
\* the runs whose generation call is in progress
Generating == {r \in 1..Len(runs) : runs[r].pc \in {"stream", "backoff"}}

\* VoiceSession constructor: this.verificationData
NewVerificationData ==
    [state |-> "PENDING", claimedName |-> FALSE, claimedUnit |-> FALSE,
     promptCount |-> 0, createdUnverifiedRequest |-> FALSE]

\* One processUserInput invocation at a wait: where it waits (pc), the retry
\* attempt, fullResponse, and the verification data handleVerificationAttempt
\* will return (kept only while it waits for the match).
NewRun(pc, data) ==
    [pc |-> pc, attempt |-> 0, fullResponse |-> <<>>,
     vd |-> IF pc = "verify" THEN data ELSE NewVerificationData, barged |-> FALSE,
     kept |-> 0]

\* the invocation moves to another wait, or is over; what it no longer reads is dropped
Moved(run, pc) ==
    [pc |-> pc,
     attempt |-> IF pc \in {"stream", "backoff"} THEN run.attempt ELSE 0,
     fullResponse |-> IF pc \in {"stream", "backoff", "parse"} THEN run.fullResponse ELSE <<>>,
     vd |-> NewVerificationData,
     barged |-> pc # "done" /\ run.barged,
     kept |-> IF pc \in {"stream", "backoff", "parse"} THEN run.kept ELSE 0]

(***************************************************************************)
(* Steps of the session.  Each is one turn of the event loop: a handler    *)
(* runs from the event that wakes it to its next wait on I/O or a timer.   *)
(***************************************************************************)
\* startDurationTimers
startDurationTimers(timers) ==
    [timers EXCEPT !.softLimitTimer = TRUE, !.hardLimitTimer = TRUE]

\* clearDurationTimers
clearDurationTimers(timers) ==
    [timers EXCEPT !.softLimitTimer = FALSE, !.hardLimitTimer = FALSE]

\* start(), from its first wait on: initial verification, audio, greeting,
\* duration timers
startBody ==
    /\ started' = TRUE
    /\ \E st \in (IF hasVerifier THEN {"VERIFIED", "VERIFYING"} ELSE {"UNVERIFIED"}) :
          verificationData' = [verificationData EXCEPT !.state = st]
    /\ audioOpen' = TRUE
    /\ conversationHistory' =
          addToConversationHistory(conversationHistory, "assistant", <<"greeting">>)
    /\ durationTimers' = startDurationTimers(durationTimers)
    /\ UNCHANGED <<speech, hasVerifier, currentTranscript, isProcessing, silenceTimer,
                   autoEndTimer, endTimers, runs, ending>>
    /\ UNCHANGED <<sessionRef, stopAt, graceTimers, endingAudio, govObs>>
    /\ UNCHANGED <<sessObs, cbVars, cbObs, libVars>>

\* start(), when nothing else happens during its waits
Start ==
    /\ ~started /\ ~startPending
    /\ startBody
    /\ UNCHANGED startPending

\* start() is called by the 'start' message handler and reaches its first wait
StartBegins ==
    /\ ~started /\ ~startPending
    /\ startPending' = TRUE
    /\ UNCHANGED <<sessVars, sessObs, cbVars, cbObs, libVars, govObs>>
    /\ UNCHANGED <<sessionRef, stopAt, durationTimers, graceTimers, endingAudio>>

\* the waits of start() are over
StartCompletes ==
    /\ startPending
    /\ startPending' = FALSE
    /\ startBody

\* (mutant) an interim fragment is accumulated like a final one
Buffered_interimToo(buffer, transcript, isFinal) == Accumulate(buffer, transcript)

\* handleTranscript: the buffer after a fragment with text
Buffered(buffer, transcript, isFinal) ==
    IF isFinal THEN Accumulate(buffer, transcript) ELSE buffer

\* (mutant) only a final fragment touches the silence timer
RearmsTimer_finalOnly(isFinal) == isFinal

\* handleTranscript: clearTimeout and setTimeout follow any fragment with text
RearmsTimer(isFinal) == TRUE

\* the worse of two marks of segObs
Worse(a, b) == IF "text" \in {a, b} THEN "text" ELSE IF "blank" \in {a, b} THEN "blank" ELSE "fresh"

\* handleTranscript(transcript, isFinal)
handleTranscript(transcript, isFinal) ==
    /\ started /\ audioOpen
    /\ isFinal => Len(finals) < MaxFinals
    /\ IF trim(transcript) = <<>>
       THEN /\ UNCHANGED <<silenceTimer, autoEndTimer, currentTranscript, runs, finals, ending>>
            /\ segObs' = [segObs EXCEPT
                             !.since = IF silenceTimer /\ @ = "fresh" THEN "blank" ELSE @]
       ELSE \* clearTimeout(silenceTimer), clearTimeout(autoEndTimer) ... setTimeout
            /\ silenceTimer' = (RearmsTimer(isFinal) \/ silenceTimer)
            /\ segObs' = [segObs EXCEPT
                             !.since = IF RearmsTimer(isFinal) THEN "fresh"
                                       ELSE IF silenceTimer THEN "text" ELSE @,
                             !.interimKept = @ /\ (isFinal \/ Buffered(currentTranscript, transcript,
                                                                     isFinal) = currentTranscript)]
            /\ ending' = [i \in DOMAIN ending |-> FALSE]
            /\ autoEndTimer' = FALSE
            /\ currentTranscript' = Buffered(currentTranscript, transcript, isFinal)
            /\ finals' = IF isFinal THEN Append(finals, transcript) ELSE finals
            \* a fragment that arrives while a generation stream is running
            /\ runs' = IF runs = <<>> THEN runs
                       ELSE [r \in 1..Len(runs) |->
                               IF runs[r].pc = "stream"
                               THEN [runs[r] EXCEPT !.barged = TRUE]
                               ELSE runs[r]]
    /\ UNCHANGED <<started, speech, hasVerifier, audioOpen, verificationData, conversationHistory,
                   isProcessing, endTimers>>
    /\ UNCHANGED <<emittedJoin, fwdAfterBargeIn, savedAfterBargeIn, requests, cbVars, cbObs, libVars,
                   govVars, govObs>>

HandleTranscript == \E t \in speech, f \in BOOLEAN : handleTranscript(t, f)

\* processUserInput(text), to its first wait: the guard, the user turn, the
\* verification attempt, and streamLLMResponse up to the generation request
\* (gate: what the shared circuit answers).
processUserInput(text) ==
    IF isProcessing
    THEN /\ currentTranscript' = <<>>
         /\ UNCHANGED <<isProcessing, conversationHistory, verificationData, runs>>
    ELSE LET verifying == Verifying(verificationData) /\ hasVerifier IN
         \E name \in (IF verifying THEN BOOLEAN ELSE {FALSE}),
            unit \in (IF verifying THEN BOOLEAN ELSE {FALSE}),
            gate \in {"pass", "open"} :
            LET claimed == ClaimedIdentity(verificationData, name, unit)
                match == verifying /\ claimed.claimedName /\ claimed.claimedUnit
                data == IF verifying THEN AfterPrompt(claimed) ELSE verificationData
            IN  /\ currentTranscript' = <<>>
                /\ conversationHistory' =
                      addToConversationHistory(conversationHistory, "user", text)
                /\ IF match
                   THEN \* await verifier.attemptMatch(...)
                        /\ runs' = Append(runs, NewRun("verify", claimed))
                        /\ isProcessing' = ProcessingFlagOnEntry
                        /\ UNCHANGED verificationData
                   ELSE /\ verificationData' = data
                        /\ IF gate = "open"
                           THEN \* CircuitOpenError: catch (apology), finally
                                /\ runs' = Append(runs, NewRun("done", data))
                                /\ isProcessing' = FALSE
                           ELSE /\ runs' = Append(runs, NewRun("stream", data))
                                /\ isProcessing' = ProcessingFlagOnEntry

\* the silence timer's callback
SilenceTimerFires ==
    /\ silenceTimer
    /\ silenceTimer' = FALSE
    /\ IF currentTranscript # <<>> /\ ~isProcessing
       THEN /\ Len(runs) < MaxRuns
            /\ LET fullUtterance == trim(currentTranscript)
               IN  /\ emittedJoin' = (fullUtterance = JoinSpace(finals))
                   /\ finals' = <<>>
                   /\ segObs' = [segObs EXCEPT !.since = "fresh",
                                                !.emitted = Worse(@, segObs.since)]
                   /\ processUserInput(fullUtterance)
       ELSE /\ UNCHANGED <<currentTranscript, isProcessing, conversationHistory,
                           verificationData, runs, emittedJoin, finals>>
            /\ segObs' = [segObs EXCEPT !.since = "fresh"]
    /\ UNCHANGED <<started, speech, hasVerifier, audioOpen, autoEndTimer, endTimers, ending>>
    /\ UNCHANGED <<fwdAfterBargeIn, savedAfterBargeIn, requests, cbVars, cbObs, libVars, govVars,
                   govObs>>

\* handleVerificationAttempt returns from attemptMatch; then streamLLMResponse
VerificationReturns ==
    \E r \in 1..Len(runs), verified \in BOOLEAN, gate \in {"pass", "open"} :
       /\ runs[r].pc = "verify"
       /\ verificationData' = AfterMatch(runs[r].vd, verified)
       /\ IF gate = "open"
          THEN runs' = [runs EXCEPT ![r] = Moved(@, "done")] /\ isProcessing' = FALSE
          ELSE runs' = [runs EXCEPT ![r] = Moved(@, "stream")] /\ UNCHANGED isProcessing
       /\ UNCHANGED <<started, speech, hasVerifier, audioOpen, conversationHistory, currentTranscript,
                      silenceTimer, autoEndTimer, endTimers, ending>>
       /\ UNCHANGED <<sessObs, cbVars, cbObs, libVars, govVars, govObs>>

\* handleVerificationAttempt rejects (attemptMatch or linkToTenant throws): the
\* await stands before processUserInput's try, so the invocation is over
\* without its catch (apology) and without its finally
VerificationFails ==
    \E r \in 1..Len(runs) :
       /\ runs[r].pc = "verify"
       /\ runs' = [runs EXCEPT ![r] = Moved(@, "done")]
       /\ UNCHANGED <<started, speech, hasVerifier, audioOpen, verificationData, conversationHistory,
                      currentTranscript, isProcessing, silenceTimer, autoEndTimer, endTimers,
                      ending>>
       /\ UNCHANGED <<sessObs, cbVars, cbObs, libVars, govVars, govObs>>

\* onToken(token): fullResponse += token; addTTSText
OnToken ==
    \E r \in 1..Len(runs), token \in Tokens :
       /\ runs[r].pc = "stream"
       /\ Len(runs[r].fullResponse) < MaxTokens
       /\ runs' = [runs EXCEPT ![r].fullResponse = Append(@, token)]
       /\ fwdAfterBargeIn' = (fwdAfterBargeIn \/ (runs[r].barged /\ audioOpen))
       /\ UNCHANGED <<started, speech, hasVerifier, audioOpen, verificationData, conversationHistory,
                      currentTranscript, isProcessing, silenceTimer, autoEndTimer, endTimers,
                      ending>>
       /\ UNCHANGED <<finals, segObs, emittedJoin, savedAfterBargeIn, requests, cbVars, cbObs, libVars, govVars, govObs>>

\* onDone, after parseResponse: flags, end-call timer, the reply into history,
\* the auto-end timer, and the wait for ticket creation
onDoneRest(r, created, ticket) ==
    LET cleaned == cleanResponse(runs[r].fullResponse)
    IN  /\ verificationData' = [verificationData EXCEPT !.createdUnverifiedRequest = created]
        /\ endTimers' = endTimers + (IF includes(runs[r].fullResponse, "[END_CALL]") THEN 1 ELSE 0)
        /\ conversationHistory' =
              addToConversationHistory(conversationHistory, "assistant", cleaned)
        /\ savedAfterBargeIn' = (savedAfterBargeIn \/ runs[r].barged)
        /\ autoEndTimer' = (autoEndTimer \/ soundsLikeClosing(cleaned))
        /\ runs' = [runs EXCEPT ![r] = Moved(@, IF ticket THEN "ticket" ELSE "done")]

\* the stream completes: onDone(usage) is called and not awaited, so the
\* attempt resolves and processUserInput reaches its finally in the same turn
StreamDone ==
    \E r \in 1..Len(runs) :
       /\ runs[r].pc = "stream"
       /\ LET response == runs[r].fullResponse
              wantsUnverified == /\ includes(response, "[CREATE_UNVERIFIED]")
                                 /\ verificationData.state = "UNVERIFIED"
              awaitsRequest == /\ wantsUnverified /\ hasVerifier
                               /\ ~verificationData.createdUnverifiedRequest
              ticket == /\ includes(response, "[CREATE_TICKET]")
                        /\ verificationData.state = "VERIFIED"
          IN  IF awaitsRequest
              THEN /\ runs' = [runs EXCEPT ![r] = Moved(@, "parse")]
                   /\ requests' = min(requests + 1, 2)
                   /\ UNCHANGED <<verificationData, endTimers, conversationHistory, autoEndTimer,
                                  savedAfterBargeIn>>
              ELSE /\ onDoneRest(r, verificationData.createdUnverifiedRequest \/ wantsUnverified,
                                 ticket)
                   /\ UNCHANGED requests
       \* flushTTS
       /\ fwdAfterBargeIn' = (fwdAfterBargeIn \/ (runs[r].barged /\ audioOpen))
       \* finally
       /\ isProcessing' = FALSE
       /\ UNCHANGED <<started, speech, hasVerifier, audioOpen, currentTranscript, silenceTimer,
                      ending>>
       /\ UNCHANGED <<finals, segObs, emittedJoin, cbVars, cbObs, libVars, govVars, govObs>>

\* parseResponse returns from createUnverifiedRequest: the rest of onDone
ParseReturns ==
    \E r \in 1..Len(runs) :
       /\ runs[r].pc = "parse"
       /\ onDoneRest(r, TRUE, FALSE)
       /\ UNCHANGED <<started, speech, hasVerifier, audioOpen, currentTranscript, isProcessing,
                      silenceTimer, ending>>
       /\ UNCHANGED <<finals, segObs, emittedJoin, fwdAfterBargeIn, requests, cbVars, cbObs, libVars, govVars, govObs>>

\* handleTicketCreation returns
TicketReturns ==
    \E r \in 1..Len(runs) :
       /\ runs[r].pc = "ticket"
       /\ runs' = [runs EXCEPT ![r] = Moved(@, "done")]
       /\ UNCHANGED <<started, speech, hasVerifier, audioOpen, verificationData, conversationHistory,
                      currentTranscript, isProcessing, silenceTimer, autoEndTimer, endTimers,
                      ending>>
       /\ UNCHANGED <<sessObs, cbVars, cbObs, libVars, govVars, govObs>>

\* a generation attempt fails (error or stream timeout): withRetry backs off,
\* or the error reaches processUserInput's catch (apology) and finally
StreamFails ==
    \E r \in 1..Len(runs), retryable \in BOOLEAN :
       /\ runs[r].pc = "stream"
       /\ IF runs[r].attempt = maxRetries \/ ~retryable
          THEN runs' = [runs EXCEPT ![r] = Moved(@, "done")] /\ isProcessing' = FALSE
          ELSE \* fullResponse is a variable of processUserInput: it outlives the attempt
               /\ runs' = [runs EXCEPT ![r] = [Moved(runs[r], "backoff") EXCEPT
                                                 !.kept = Len(runs[r].fullResponse)]]
               /\ UNCHANGED isProcessing
       /\ UNCHANGED <<started, speech, hasVerifier, audioOpen, verificationData, conversationHistory,
                      currentTranscript, silenceTimer, autoEndTimer, endTimers, ending>>
       /\ UNCHANGED <<sessObs, cbVars, cbObs, libVars, govVars, govObs>>

\* withRetry: the backoff sleep ends and the next attempt starts
RetryAttempt ==
    \E r \in 1..Len(runs) :
       /\ runs[r].pc = "backoff"
       /\ runs' = [runs EXCEPT ![r].pc = "stream", ![r].attempt = @ + 1]
       /\ UNCHANGED <<started, speech, hasVerifier, audioOpen, verificationData, conversationHistory,
                      currentTranscript, isProcessing, silenceTimer, autoEndTimer, endTimers,
                      ending>>
       /\ UNCHANGED <<sessObs, cbVars, cbObs, libVars, govVars, govObs>>

\* handleEndSession: the caller was not verified and no request is recorded
CreatesAtEnd(data) ==
    data.state \in {"UNVERIFIED", "VERIFYING"} /\ ~data.createdUnverifiedRequest

\* end(), to the first wait of handleEndSession: the auto-end timer is
\* cleared and the current silenceTimer handle is passed on
endCall ==
    /\ autoEndTimer' = FALSE
    /\ requests' = IF CreatesAtEnd(verificationData) /\ hasVerifier
                   THEN min(requests + 1, 2) ELSE requests
    /\ ending' = Append(ending, TRUE)
    /\ endingAudio' = Append(endingAudio, started)

endBegin == Len(ending) < MaxEnds /\ endCall

\* a "setTimeout(() => this.end(), 2000)" of an [END_CALL] reply fires
EndCallTimerFires ==
    /\ endTimers > 0
    /\ endTimers' = endTimers - 1
    /\ endBegin
    /\ UNCHANGED <<started, speech, hasVerifier, audioOpen, verificationData, conversationHistory,
                   currentTranscript, isProcessing, silenceTimer, runs>>
    /\ UNCHANGED <<sessObsRest, cbVars, cbObs, libVars, govObs>>
    /\ UNCHANGED <<startPending, sessionRef, stopAt, durationTimers, graceTimers>>

\* the auto-end timer fires
AutoEndTimerFires ==
    /\ autoEndTimer
    /\ endBegin
    /\ UNCHANGED <<started, speech, hasVerifier, audioOpen, verificationData, conversationHistory,
                   currentTranscript, isProcessing, silenceTimer, endTimers, runs>>
    /\ UNCHANGED <<sessObsRest, cbVars, cbObs, libVars, govObs>>
    /\ UNCHANGED <<startPending, sessionRef, stopAt, durationTimers, graceTimers>>

\* the transport sends 'stop' or closes the socket
TransportEnds ==
    /\ started
    /\ endBegin
    /\ UNCHANGED <<started, speech, hasVerifier, audioOpen, verificationData, conversationHistory,
                   currentTranscript, isProcessing, silenceTimer, endTimers, runs>>
    /\ UNCHANGED <<sessObsRest, cbVars, cbObs, libVars, govObs>>
    /\ UNCHANGED <<startPending, sessionRef, stopAt, durationTimers, graceTimers>>

\* the 'stop' message: "await session.end(); session = null"
TransportStops ==
    /\ sessionRef /\ stopAt = 0
    /\ started \/ startPending
    /\ endBegin
    /\ stopAt' = Len(ending) + 1
    /\ UNCHANGED <<started, speech, hasVerifier, audioOpen, verificationData, conversationHistory,
                   currentTranscript, isProcessing, silenceTimer, endTimers, runs>>
    /\ UNCHANGED <<sessObsRest, cbVars, cbObs, libVars, govObs>>
    /\ UNCHANGED <<startPending, sessionRef, durationTimers, graceTimers>>

\* the socket closes: "session.end(); session = null"
TransportCloses ==
    /\ sessionRef
    /\ started \/ startPending
    /\ endCall
    /\ sessionRef' = FALSE
    /\ UNCHANGED <<started, speech, hasVerifier, audioOpen, verificationData, conversationHistory,
                   currentTranscript, isProcessing, silenceTimer, endTimers, runs>>
    /\ UNCHANGED <<sessObsRest, cbVars, cbObs, libVars, govObs>>
    /\ UNCHANGED <<startPending, stopAt, durationTimers, graceTimers>>

\* (mutant) the soft-limit timer repeats and the flag is never set
handleSoftLimit_again(timers) == timers

\* the soft-limit timer has fired and handleSoftLimit has run
handleSoftLimit(timers) ==
    [timers EXCEPT !.softLimitTimer = FALSE, !.hasHitSoftLimit = TRUE]

\* an intervention of the duration limits on a session whose end() has
\* finished without the hard limit having fired
Late == govObs.finalised > 0 /\ ~govObs.hardFired

\* the soft-limit timer fires: handleSoftLimit
SoftLimitFires ==
    /\ durationTimers.softLimitTimer
    /\ durationTimers' = handleSoftLimit(durationTimers)
    /\ IF durationTimers.hasHitSoftLimit
       THEN UNCHANGED <<conversationHistory, govObs>>
       ELSE /\ conversationHistory' =
                  addToConversationHistory(conversationHistory, "assistant", <<"soft">>)
            /\ govObs' = [govObs EXCEPT !.softSpoken = @ + 1,
                                        !.lateIntervention = @ \/ Late]
    /\ UNCHANGED <<started, speech, hasVerifier, audioOpen, verificationData, currentTranscript,
                   isProcessing, silenceTimer, autoEndTimer, endTimers, runs, ending>>
    /\ UNCHANGED <<sessObs, cbVars, cbObs, libVars>>
    /\ UNCHANGED <<startPending, sessionRef, stopAt, graceTimers, endingAudio>>

\* (mutant) handleHardLimit sets no timer
scheduleEnd_never(timers) == timers

\* handleHardLimit: "setTimeout(() => ctx.end(), 8000)"
scheduleEnd(timers) == timers + 1

\* the hard-limit timer fires, ten minutes after the soft-limit timer was due:
\* handleHardLimit
HardLimitFires ==
    /\ durationTimers.hardLimitTimer /\ ~durationTimers.softLimitTimer
    /\ durationTimers' = [durationTimers EXCEPT !.hardLimitTimer = FALSE]
    /\ conversationHistory' =
          addToConversationHistory(conversationHistory, "assistant", <<"closing">>)
    /\ graceTimers' = scheduleEnd(graceTimers)
    /\ govObs' = [govObs EXCEPT !.hardFired = TRUE, !.hardLive = (govObs.finalised = 0),
                                !.hardSpoken = audioOpen,
                                !.lateIntervention = @ \/ Late]
    /\ UNCHANGED <<started, speech, hasVerifier, audioOpen, verificationData, currentTranscript,
                   isProcessing, silenceTimer, autoEndTimer, endTimers, runs, ending>>
    /\ UNCHANGED <<sessObs, cbVars, cbObs, libVars>>
    /\ UNCHANGED <<startPending, sessionRef, stopAt, endingAudio>>

\* the "setTimeout(() => ctx.end(), 8000)" of handleHardLimit fires
GraceTimerFires ==
    /\ graceTimers > 0
    /\ graceTimers' = graceTimers - 1
    /\ endCall
    /\ govObs' = [govObs EXCEPT !.graceEnded = TRUE]
    /\ UNCHANGED <<started, speech, hasVerifier, audioOpen, verificationData, conversationHistory,
                   currentTranscript, isProcessing, silenceTimer, endTimers, runs>>
    /\ UNCHANGED <<sessObsRest, cbVars, cbObs, libVars>>
    /\ UNCHANGED <<startPending, sessionRef, stopAt, durationTimers>>

\* handleEndSession reaches cost tracking and its cleanup: cleanupAudio,
\* clearTimeout(ctx.silenceTimer), clearDurationTimers; when it was the end()
\* of the 'stop' message, the handler then drops the session
EndCleanup ==
    \E i \in 1..Len(ending) :
       /\ audioOpen' = IF endingAudio[i] THEN FALSE ELSE audioOpen
       /\ silenceTimer' = IF ending[i] THEN FALSE ELSE silenceTimer
       /\ durationTimers' = clearDurationTimers(durationTimers)
       /\ ending' = SubSeq(ending, 1, i - 1) \o SubSeq(ending, i + 1, Len(ending))
       /\ endingAudio' = SubSeq(endingAudio, 1, i - 1) \o SubSeq(endingAudio, i + 1, Len(ending))
       /\ stopAt' = IF stopAt = i THEN -1 ELSE IF stopAt > i THEN stopAt - 1 ELSE stopAt
       /\ sessionRef' = (sessionRef /\ stopAt # i)
       /\ govObs' = [govObs EXCEPT !.finalised = IF @ < 2 THEN @ + 1 ELSE @]
       /\ UNCHANGED <<started, speech, hasVerifier, verificationData, conversationHistory,
                      currentTranscript, isProcessing, autoEndTimer, endTimers, runs>>
       /\ UNCHANGED <<sessObs, cbVars, cbObs, libVars, startPending, graceTimers>>

\* the session as constructed; the circuit variables are not used by Spec
SessionConstructed ==
    /\ started = FALSE
    /\ audioOpen = FALSE
    /\ verificationData = NewVerificationData
    /\ conversationHistory = <<>>
    /\ currentTranscript = <<>>
    /\ isProcessing = FALSE
    /\ silenceTimer = FALSE
    /\ autoEndTimer = FALSE
    /\ endTimers = 0
    /\ runs = <<>>
    /\ ending = <<>>
    /\ finals = <<>>
    /\ emittedJoin = TRUE
    /\ segObs = [since |-> "fresh", emitted |-> "fresh", interimKept |-> TRUE]
    /\ fwdAfterBargeIn = FALSE
    /\ savedAfterBargeIn = FALSE
    /\ requests = 0
    /\ startPending = FALSE
    /\ sessionRef = TRUE
    /\ stopAt = 0
    /\ durationTimers = [softLimitTimer |-> FALSE, hardLimitTimer |-> FALSE,
                         hasHitSoftLimit |-> FALSE]
    /\ graceTimers = 0
    /\ endingAudio = <<>>
    /\ govObs = [softSpoken |-> 0, hardFired |-> FALSE, hardLive |-> FALSE, hardSpoken |-> FALSE,
                 graceEnded |-> FALSE, finalised |-> 0, lateIntervention |-> FALSE]

\* no withRetry call is under observation
RetryIdle ==
    /\ retry = [maxRetries |-> 0, pc |-> "idle", attempt |-> 0,
                options |-> [baseDelayMs |-> 0, maxDelayMs |-> 0, backoffMultiplier |-> 0],
                delayMs |-> 0,
                lastError |-> NoError, settled |-> NoError, returned |-> ""]
    /\ retryObs = [invoked |-> 0, delays |-> 0, raised |-> <<>>, resolved |-> ""]

\* "const circuits = new Map()" at module load
RegistryEmpty ==
    /\ circuits = [name \in Names |-> 0]
    /\ breakers = <<>>
    /\ handles = {}
    /\ gets = 0
    /\ lastStats = <<>>

\* no adapter call is under observation
AdapterIdle ==
    /\ adapterObs = [entry |-> 0, aborts |-> 0, failedUses |-> 0, apology |-> FALSE]
    /\ timeoutTimers = [live |-> FALSE, stale |-> 0]

\* createElevenLabsConnection has returned: the socket is open, nothing is held back
ChannelOpen == tts = [isReady |-> TRUE, textBuffer |-> <<>>] /\ heard = <<>>

\* the process is up, no call is connected
ProcessUp ==
    /\ shut = [isShuttingDown |-> FALSE, pc |-> "running", elapsed |-> 0,
               activeSessions |-> {}, ended |-> {}]
    /\ signals = 0

EdgeIdle == ChannelOpen /\ attemptLog = <<>> /\ ProcessUp

LibIdle ==
    /\ RetryIdle /\ historyLog = <<>> /\ RegistryEmpty /\ service = "openai" /\ AdapterIdle
    /\ EdgeIdle

CircuitConstructed ==
    /\ circuit = NewCircuit
    /\ now = TimeoutTicks
    /\ inFlight = 0 /\ trials = 0 /\ calls = 0 /\ rejected = 0
    /\ last = [ev |-> "init", from |-> "CLOSED", fails |-> 0]
    /\ fromClosed = 0 /\ hoSucc = -1 /\ streak = 0 /\ reopenedAt = -1

Init ==
    /\ hasVerifier \in BOOLEAN
    /\ speech = Word
    /\ SessionConstructed
    /\ CircuitConstructed
    /\ LibIdle

Next ==
    \/ Start
    \/ HandleTranscript
    \/ SilenceTimerFires
    \/ VerificationReturns
    \/ VerificationFails
    \/ OnToken
    \/ StreamDone
    \/ ParseReturns
    \/ TicketReturns
    \/ StreamFails
    \/ RetryAttempt
    \/ EndCallTimerFires
    \/ AutoEndTimerFires
    \/ TransportEnds
    \/ EndCleanup

Spec == Init /\ [][Next]_vars

\* A call that stays up, from a caller the server has no property for (no
\* verifier), who says any of Transcripts.
InitCall ==
    /\ hasVerifier = FALSE
    /\ speech = Transcripts
    /\ SessionConstructed
    /\ CircuitConstructed
    /\ LibIdle

NextCall ==
    \/ Start
    \/ HandleTranscript
    \/ SilenceTimerFires
    \/ OnToken
    \/ StreamDone
    \/ StreamFails
    \/ RetryAttempt

SpecCall == InitCall /\ [][NextCall]_vars

\* the circuit as constructed, with a session that is never started
InitCB ==
    /\ hasVerifier = FALSE
    /\ speech = {}
    /\ SessionConstructed
    /\ CircuitConstructed
    /\ LibIdle

NextCB == Execute \/ FnSucceeds \/ FnFails \/ Reset \/ Tick

SpecCB == InitCB /\ [][NextCB]_vars

\* The segmenter of a call that stays up: fragments with text and of white
\* space only, final and interim, against the silence timer and the turns
\* the emissions start.
InitListen ==
    /\ hasVerifier = FALSE
    /\ speech = OneWord
    /\ SessionConstructed
    /\ CircuitConstructed
    /\ LibIdle

NextListen ==
    \/ Start
    \/ HandleTranscript
    \/ SilenceTimerFires
    \/ StreamDone
    \/ StreamFails
    \/ RetryAttempt

SpecListen == InitListen /\ [][NextListen]_vars

\* A call from start to end and beyond: start() with its waits, the transport's
\* 'stop' and close, the duration limits, and turns whose generation
\* succeeds, from a caller the server has no property for.
InitEnd ==
    /\ hasVerifier = FALSE
    /\ speech = Word
    /\ SessionConstructed
    /\ CircuitConstructed
    /\ LibIdle

NextEnd ==
    \/ StartBegins
    \/ StartCompletes
    \/ HandleTranscript
    \/ SilenceTimerFires
    \/ StreamDone
    \/ TransportStops
    \/ TransportCloses
    \/ SoftLimitFires
    \/ HardLimitFires
    \/ GraceTimerFires
    \/ EndCleanup

SpecEnd == InitEnd /\ [][NextEnd]_vars

\* a timer that is pending fires
SpecEndFair == SpecEnd /\ WF_vars(GraceTimerFires)

\* A long conversation, seen as the appends it makes: the greeting, then user
\* turns and replies in alternation, each holding its serial number, and at
\* some point the soft-limit message (number 0).
historyRest == <<started, speech, hasVerifier, audioOpen, verificationData, currentTranscript,
                 isProcessing, silenceTimer, autoEndTimer, endTimers, runs, ending>>

AppendTurn ==
    /\ Len(historyLog) < MaxAppends
    /\ LET n == Len(historyLog) + 1
           role == IF historyLog = <<>> \/ historyLog[n - 1].role = "user"
                   THEN "assistant" ELSE "user"
       IN  /\ conversationHistory' = addToConversationHistory(conversationHistory, role, <<n>>)
           /\ historyLog' = Append(historyLog, [role |-> role, content |-> <<n>>])
    /\ UNCHANGED <<historyRest, sessObs, cbVars, cbObs, retryVars, regVars, adapterVars, edgeVars, govVars, govObs>>

AppendLimitMessage ==
    /\ Len(historyLog) < MaxAppends
    /\ \A i \in 1..Len(historyLog) : historyLog[i].content # <<0>>
    /\ conversationHistory' = addToConversationHistory(conversationHistory, "assistant", <<0>>)
    /\ historyLog' = Append(historyLog, [role |-> "assistant", content |-> <<0>>])
    /\ UNCHANGED <<historyRest, sessObs, cbVars, cbObs, retryVars, regVars, adapterVars, edgeVars, govVars, govObs>>

InitHistory ==
    /\ hasVerifier = FALSE
    /\ speech = {}
    /\ SessionConstructed
    /\ CircuitConstructed
    /\ LibIdle

NextHistory == AppendTurn \/ AppendLimitMessage

SpecHistory == InitHistory /\ [][NextHistory]_vars

\* the registry over a process lifetime: modules and sessions get circuits by
\* name, call through them, and the health route reads the stats
InitRegistry ==
    /\ hasVerifier = FALSE
    /\ speech = {}
    /\ SessionConstructed
    /\ CircuitConstructed
    /\ LibIdle

NextRegistry == GetCircuitBreaker \/ ExecuteOn \/ GetAllCircuitStats

SpecRegistry == InitRegistry /\ [][NextRegistry]_vars

\* the adapter of one of the three services, called again and again
InitAdapter ==
    /\ hasVerifier = FALSE
    /\ speech = {}
    /\ SessionConstructed
    /\ CircuitConstructed
    /\ RetryIdle /\ historyLog = <<>> /\ RegistryEmpty
    /\ service \in {"openai", "deepgram", "elevenlabs"}
    /\ AdapterIdle
    /\ EdgeIdle

NextAdapter ==
    AdapterCall \/ AttemptResolves \/ AttemptRejects \/ AttemptRestarts \/ StaleTimerFires

SpecAdapter == InitAdapter /\ [][NextAdapter]_vars

\* the verification of a caller the phone lookup has not found
InitVerify ==
    /\ hasVerifier = TRUE
    /\ speech = {}
    /\ SessionConstructed
    /\ CircuitConstructed
    /\ LibIdle

NextVerify == Start \/ HandleVerificationAttempt

SpecVerify == InitVerify /\ [][NextVerify]_vars

\* the process, the calls it tracks and its shutdown
InitShutdown ==
    /\ hasVerifier = FALSE
    /\ speech = {}
    /\ SessionConstructed
    /\ CircuitConstructed
    /\ LibIdle

NextShutdown ==
    \/ TrackSession
    \/ UntrackSession
    \/ ShutdownSignal
    \/ ServerCloses
    \/ PollTimerFires
    \/ ForcedEndReturns

SpecShutdown == InitShutdown /\ [][NextShutdown]_vars

\* fastify.close() and every awaited end() settle, and a pending timer fires
SpecShutdownFair ==
    /\ SpecShutdown
    /\ WF_vars(ServerCloses) /\ WF_vars(PollTimerFires) /\ WF_vars(ForcedEndReturns)

\* the synthesis channel of a call and the deltas of its replies
InitSpeak ==
    /\ hasVerifier = FALSE
    /\ speech = {}
    /\ SessionConstructed
    /\ CircuitConstructed
    /\ LibIdle

NextSpeak == AddText \/ SocketCloses \/ SocketOpens

SpecSpeak == InitSpeak /\ [][NextSpeak]_vars

\* one withRetry call, with options.maxRetries in 0..MaxRetriesOption
InitRetry ==
    /\ hasVerifier = FALSE
    /\ speech = {}
    /\ SessionConstructed
    /\ CircuitConstructed
    /\ LibIdle

NextRetry == WithRetry \/ FnResolves \/ FnRejects \/ SleepEnds

SpecRetry == InitRetry /\ [][NextRetry]_vars

(***************************************************************************)
(* Claim about the registry of circuits (checked under SpecRegistry).      *)
(***************************************************************************)
\* C20: there is one circuit per dependency name for the process lifetime:
\* every getCircuitBreaker(name) returns the same circuit, the stats list it
\* once, so a change made through one reference is the one every holder sees;
\* and a later call, whatever its options, neither makes a second circuit nor
\* changes the options, state or counters of the existing one.
C20_OneCircuitPerName ==
    /\ [](/\ \A h1, h2 \in handles : h1.name = h2.name => h1.id = h2.id
          /\ \A i, j \in 1..Len(lastStats) : lastStats[i].name = lastStats[j].name => i = j
          /\ \A i, j \in 1..Len(breakers) :
                breakers[i].options.name = breakers[j].options.name => i = j)
    /\ [][\A name \in Names :
             circuits[name] # 0 =>
                /\ circuits'[name] = circuits[name]
                /\ breakers'[circuits[name]].options = breakers[circuits[name]].options
                /\ gets' # gets => breakers'[circuits[name]] = breakers[circuits[name]]]_vars

\* a name was asked for with two different options, its circuit has opened,
\* another name has a circuit too, and the stats were read
C20_Witness ==
    /\ \E h1, h2 \in handles :
          /\ h1.name = h2.name /\ h1.options # h2.options
          /\ breakers[h1.id].cb.state = "OPEN"
          /\ \E i \in 1..Len(lastStats) :
                lastStats[i].name = h1.name /\ lastStats[i].state = "OPEN"
    /\ \A name \in Names : circuits[name] # 0

(***************************************************************************)
(* Claims about the session (checked under Spec, C4 under SpecCall).       *)
(***************************************************************************)
\* C1: once a fragment with text has arrived while a run's generation stream
\* is running, no further token of that run is passed to the synthesis
\* channel and no flush is issued for it.
C1_BargeInStopsForwarding == ~fwdAfterBargeIn

\* C2: conversationHistory never receives the reply of a run during whose
\* generation stream a fragment with text arrived.
C2_BargedReplyNotSaved == ~savedAfterBargeIn

C4_EmitsJoinedFragments == emittedJoin

\* C30: VERIFIED and UNVERIFIED are terminal: no step changes the verification
\* state once it is one of them, and no step takes the state back to PENDING.
C30_TerminalVerification ==
    [][/\ verificationData.state \in {"VERIFIED", "UNVERIFIED"} =>
             verificationData'.state = verificationData.state
       /\ verificationData'.state = "PENDING" => verificationData.state = "PENDING"]_vars

\* a caller who was matched by name and unit has had a further utterance
\* dispatched
C30_Witness ==
    /\ verificationData.state = "VERIFIED"
    /\ verificationData.claimedName /\ verificationData.claimedUnit
    /\ Len(runs) = 2
    /\ runs[2].pc = "stream"

\* C24: the reply of a run that completed is in the history before the
\* processing guard is released: a run whose stream has completed and whose
\* reply is not yet appended still holds the guard, and no utterance has been
\* dispatched after it.
C24_ReplyBeforeIdle ==
    \A r \in 1..Len(runs) : runs[r].pc = "parse" => isProcessing /\ r = Len(runs)

\* C25: when a completed stream's text is scanned for control directives (the
\* step in which onDone runs), no directive lies in the part of the text that
\* was streamed by an attempt that failed or timed out.
C25_TagsFromCompletedStream ==
    [][\A r \in 1..Len(runs) :
          (/\ runs[r].pc = "stream"
           /\ \/ runs'[r].pc \in {"parse", "ticket"}
              \/ runs'[r].pc = "done" /\ conversationHistory' # conversationHistory)
          => \A tag \in ControlTags :
                ~includes(SubSeq(runs[r].fullResponse, 1, runs[r].kept), tag)]_vars

\* C33: the assistant reply appended to the history by a run is the cleaned
\* text of the tokens of the attempt that completed, without the tokens that
\* attempts before a retry had streamed.
C33_ReplyOfCompletedAttempt ==
    [][\A r \in 1..Len(runs) :
          (/\ r <= Len(runs')
           /\ runs[r].pc \in {"stream", "parse"}
           /\ runs'[r].pc \in {"ticket", "done"}
           /\ conversationHistory' # conversationHistory)
          => conversationHistory'[Len(conversationHistory')] =
                [role |-> "assistant",
                 content |-> cleanResponse(SubSeq(runs[r].fullResponse, runs[r].kept + 1,
                                                  Len(runs[r].fullResponse)))]]_vars

\* C36: at most one unverified request is created in a call, by the turns and
\* the end() calls together.
C36_OneUnverifiedRequest == requests <= 1

(***************************************************************************)
(* Claims about the segmenter (checked under SpecListen).                  *)
(***************************************************************************)
\* C29, as stated: every utterance is emitted by a silence timer that was armed
\* by the most recent fragment, whatever that fragment held.
C29_AnyFragmentRearms == segObs.emitted = "fresh"

\* C29, amended: every utterance is emitted by a silence timer armed by the
\* most recent fragment that has text (a fragment of white space only leaves
\* the timer as it is); a pending timer is never older than such a fragment;
\* and an interim fragment leaves the accumulation buffer unchanged.
C29_TextFragmentRearms ==
    /\ segObs.emitted # "text"
    /\ segObs.since # "text"
    /\ segObs.interimKept

\* an utterance was emitted by a timer that a blank fragment had not
\* postponed, and now a timer is pending that only an interim fragment can
\* have armed: the buffer is empty and no final fragment has come since
C29_Witness ==
    /\ segObs.emitted = "blank"
    /\ silenceTimer /\ currentTranscript = <<>> /\ finals = <<>>

\* C23: text buffered from a fragment that arrived during a run is dispatched
\* once that run has ended without waiting for more speech: on a call that is
\* up, whenever the buffer holds text and no utterance is being processed, a
\* silence timer is pending that will emit it.
C23_BufferedTextDispatched ==
    (audioOpen /\ currentTranscript # <<>> /\ ~isProcessing) => silenceTimer

(***************************************************************************)
(* Claims about end() and the duration limits (checked under SpecEnd).     *)
(***************************************************************************)
\* C16: when processing of a dispatched utterance fails, the processing guard
\* is released: the flag is never left set with no invocation inside the
\* guarded region to clear it, so a later utterance is processed.
C16_GuardReleased == isProcessing => Guarded # {}

\* C15: end() is idempotent: over all the end() calls of a session
\* (transport stop, close, timers), handleEndSession tracks the costs,
\* finalises the recording and releases resources at most once.
C15_EndEffectsOnce == govObs.finalised <= 1

\* C17: the soft-limit message is spoken, and appended to history, at most
\* once per call.
C17_SoftLimitOnce ==
    /\ govObs.softSpoken <= 1
    /\ Cardinality({i \in 1..Len(conversationHistory) :
                        conversationHistory[i].content = <<"soft">>}) <= 1

\* the soft-limit message was spoken and a later utterance was taken up
C17_Witness ==
    /\ govObs.softSpoken = 1
    /\ \E i, j \in 1..Len(conversationHistory) :
          /\ i < j
          /\ conversationHistory[i].content = <<"soft">>
          /\ conversationHistory[j].role = "user"

\* C18: once the hard-limit timer has fired on a live session, its closing
\* message has gone to synthesis and the grace timer is pending or has called
\* end(); and the grace timer does call end(), whatever the caller and the
\* runs do.
C18_HardLimitEnds ==
    /\ [](govObs.hardFired =>
            /\ govObs.hardLive => govObs.hardSpoken
            /\ graceTimers > 0 \/ govObs.graceEnded)
    /\ (govObs.hardFired ~> govObs.graceEnded)

\* the grace timer has called end() while a run was in flight and the caller
\* was silent
C18_Witness ==
    /\ govObs.hardLive /\ govObs.hardSpoken /\ govObs.graceEnded
    /\ Generating # {}
    /\ ~silenceTimer /\ currentTranscript = <<>>

\* C19: when end() has finished for a reason other than the hard limit,
\* neither the soft-limit nor the hard-limit timer fires afterwards.
C19_NoLimitAfterEnd == ~govObs.lateIntervention

\* C34: once start() and every end() call have finished, and at least one
\* end() has (the case in question being an end() called while start() was
\* still at one of its waits), no transcription or synthesis channel is open
\* and no duration timer is armed.
C34_NothingHeldAfterEnd ==
    (govObs.finalised > 0 /\ ending = <<>> /\ started /\ ~startPending) =>
       /\ ~audioOpen
       /\ ~durationTimers.softLimitTimer /\ ~durationTimers.hardLimitTimer

\* C35: once an end() call has finished, no utterance is dispatched and
\* nothing is appended to the history.
C35_QuietAfterEnd ==
    [][govObs.finalised > 0 =>
          /\ Len(runs') = Len(runs)
          /\ conversationHistory' = conversationHistory]_vars

(***************************************************************************)
(* Claims about the history cap (checked under SpecHistory).               *)
(***************************************************************************)
\* C14: after any sequence of appends the history holds at most
\* MAX_CONVERSATION_MESSAGES entries, and they are the most recently appended
\* ones in the order appended; after the 101st append it has 100 entries, the
\* first of which is the 2nd message appended.
C14_HistoryKeepsLatest ==
    LET n == Len(historyLog)
        kept == IF n > MAX_CONVERSATION_MESSAGES THEN MAX_CONVERSATION_MESSAGES ELSE n
    IN  /\ Len(conversationHistory) = kept
        /\ conversationHistory = SubSeq(historyLog, n - kept + 1, n)

\* the 101st message has been appended
C14_Witness ==
    /\ Len(historyLog) = MAX_CONVERSATION_MESSAGES + 1
    /\ Len(conversationHistory) = MAX_CONVERSATION_MESSAGES
    /\ conversationHistory[1] = historyLog[2]

(***************************************************************************)
(* Claims about withRetry (checked under SpecRetry).                       *)
(***************************************************************************)
AllRetryable(errors) ==
    \A i \in 1..Len(errors) : isRetryable(errors[i], retryableErrors)

\* C11: when the first attempt fails with an error that is not retryable, fn
\* has been invoked exactly once, no backoff delay was taken, and withRetry
\* has thrown that error.
C11_NonRetryableThrownAtOnce ==
    (retryObs.raised # <<>> /\ ~isRetryable(retryObs.raised[1], retryableErrors)) =>
        /\ retry.pc = "thrown"
        /\ retry.settled = retryObs.raised[1]
        /\ retryObs.invoked = 1
        /\ retryObs.delays = 0

\* a call that had retries left has thrown on a first, non-retryable error
C11_Witness ==
    /\ retry.maxRetries >= 1
    /\ retry.pc = "thrown"
    /\ Len(retryObs.raised) = 1
    /\ ~isRetryable(retryObs.raised[1], retryableErrors)

\* C12: if fn fails with retryable errors on its first k attempts,
\* k <= maxRetries, the call has not thrown; and when fn then succeeds,
\* withRetry returns the value fn resolved with, having invoked fn exactly
\* k + 1 <= maxRetries + 1 times.
C12_SuccessAfterRetries ==
    LET k == Len(retryObs.raised)
    IN  /\ (k <= retry.maxRetries /\ AllRetryable(retryObs.raised)) => retry.pc # "thrown"
        /\ retry.pc = "returned" =>
               /\ AllRetryable(retryObs.raised)
               /\ retry.returned = retryObs.resolved
               /\ retryObs.invoked = k + 1
               /\ retryObs.invoked <= retry.maxRetries + 1

\* fn failed on every attempt but the last one allowed, and the call returned
C12_Witness ==
    /\ retry.maxRetries >= 2
    /\ retry.pc = "returned"
    /\ Len(retryObs.raised) = retry.maxRetries
    /\ retry.returned = "v2"

\* C13: when every attempt has failed with a retryable error, maxRetries + 1
\* of them, fn has been invoked exactly maxRetries + 1 times, exactly
\* maxRetries backoff delays were taken, and withRetry has thrown the error
\* of the last attempt.
C13_ExhaustedThrowsLast ==
    (Len(retryObs.raised) = retry.maxRetries + 1 /\ AllRetryable(retryObs.raised)) =>
        /\ retry.pc = "thrown"
        /\ retry.settled = retryObs.raised[Len(retryObs.raised)]
        /\ retryObs.invoked = retry.maxRetries + 1
        /\ retryObs.delays = retry.maxRetries

\* the retries are exhausted, and the last error is not the first one
C13_Witness ==
    /\ retry.maxRetries >= 2
    /\ retry.pc = "thrown"
    /\ Len(retryObs.raised) = retry.maxRetries + 1
    /\ AllRetryable(retryObs.raised)
    /\ retryObs.raised[1] # retryObs.raised[Len(retryObs.raised)]

\* C22: the delay slept after the failed attempt of index a is at least
\* min(base * multiplier^a, maxDelay) and at most min(1.3 * base * multiplier^a,
\* maxDelay), so never above maxDelayMs.
C22_DelayBounds ==
    retry.pc = "sleep" =>
       LET opts == retry.options
           exponential == opts.baseDelayMs * pow(opts.backoffMultiplier, retry.attempt)
       IN  /\ retry.delayMs >= min(exponential, opts.maxDelayMs)
           /\ retry.delayMs <= min((13 * exponential) \div 10, opts.maxDelayMs)
           /\ retry.delayMs <= opts.maxDelayMs

\* a sleep whose jittered exponential delay was cut down to maxDelayMs
C22_Witness ==
    /\ retry.pc = "sleep"
    /\ retry.attempt >= 1
    /\ retry.delayMs = retry.options.maxDelayMs
    /\ retry.options.baseDelayMs * pow(retry.options.backoffMultiplier, retry.attempt)
          < retry.options.maxDelayMs

\* C31: no timeout timer armed for an attempt is pending once the attempt has
\* resolved or rejected.
C31_TimersCleared == timeoutTimers.stale = 0

(***************************************************************************)
(* Claim about the shutdown (checked under SpecShutdownFair).              *)
(***************************************************************************)
\* C32: after a shutdown signal the tracked sessions are waited for while the
\* grace period has not expired and no end() is forced before it has; when
\* shutdown completes every session still tracked has had end() called on it;
\* a signal received during the shutdown changes nothing; and a shutdown that
\* has begun completes.
C32_GracefulShutdown ==
    /\ [](/\ shut.pc = "sleeping" => ~Expired(shut.elapsed)
          /\ shut.ended # {} => Expired(shut.elapsed)
          /\ shut.pc = "exited" => shut.activeSessions \subseteq shut.ended)
    /\ [][(signals' # signals /\ shut.isShuttingDown) => shut' = shut]_vars
    /\ (shut.isShuttingDown ~> shut.pc = "exited")

\* the grace period expired with two sessions tracked, both had end() called,
\* and a second signal had arrived meanwhile
C32_Witness ==
    /\ shut.pc = "exited"
    /\ Cardinality(shut.ended) = 2
    /\ shut.ended \subseteq shut.activeSessions
    /\ signals = 2

(***************************************************************************)
(* Claim about the verification flow (checked under SpecVerify).           *)
(***************************************************************************)
\* C38: a caller in VERIFYING is out of that state once maxPrompts
\* verification attempts have been made.
C38_UnverifiedAfterMaxPrompts ==
    Len(attemptLog) >= maxPrompts => ~Verifying(verificationData)

(***************************************************************************)
(* Claim about the synthesis channel (checked under SpecSpeak).            *)
(***************************************************************************)
\* C37: the text sent to synthesis never holds a control tag, whether the tag
\* came in one delta or split over consecutive deltas.
C37_NoTagSpoken == ~HasTag(heard)

(***************************************************************************)
(* Claims about the adapters (checked under SpecAdapter).                  *)
(***************************************************************************)
\* C21: once FailureThreshold uses of a service in a row have failed (the
\* connection failed or timed out, or the stream failed), the service's
\* circuit is no longer CLOSED.
C21_ServiceFailuresOpen ==
    adapterObs.failedUses >= FailureThreshold => circuit.state # "CLOSED"

\* C26: a generation call whose attempts all ran into the stream timeout is
\* retried while retries remain, and when it throws it has made maxRetries + 1
\* attempts, the circuit has counted one failure and the apology is due.
C26_TimeoutIsFailure ==
    (/\ service = "openai" /\ retry.pc \in {"call", "sleep", "thrown"}
     /\ adapterObs.aborts > 0 /\ adapterObs.aborts = Len(retryObs.raised)) =>
       /\ adapterObs.aborts <= maxRetries => retry.pc # "thrown"
       /\ retry.pc = "thrown" =>
             /\ adapterObs.aborts = maxRetries + 1
             /\ retryObs.invoked = maxRetries + 1
             /\ circuit.failures = adapterObs.entry + 1
             /\ last.ev = "failure"
             /\ adapterObs.apology

\* three attempts of a generation call have timed out and the call has thrown
C26_Witness ==
    /\ service = "openai"
    /\ retry.pc = "thrown"
    /\ adapterObs.aborts = maxRetries + 1
    /\ adapterObs.apology

\* C27: retries run inside the guarded call: while a call is retrying the
\* circuit's failure count is the one it was admitted with; when the call
\* throws, after however many failed attempts, the count has grown by exactly
\* one; when it returns, even after failed attempts, the circuit has registered
\* a success and the count is zero.
C27_OneFailurePerCall ==
    /\ retry.pc \in {"call", "sleep"} => circuit.failures = adapterObs.entry
    /\ retry.pc = "thrown" =>
          circuit.failures = adapterObs.entry + 1 /\ last.ev = "failure"
    /\ retry.pc = "returned" => circuit.failures = 0 /\ last.ev = "success"

\* a call admitted with a failure already counted has thrown after
\* maxRetries + 1 failed attempts
C27_Witness ==
    /\ retry.pc = "thrown"
    /\ Len(retryObs.raised) = maxRetries + 1
    /\ adapterObs.entry = 1
    /\ circuit.failures = 2

\* a call has returned after two failed attempts
C27_WitnessSuccess ==
    /\ retry.pc = "returned"
    /\ Len(retryObs.raised) = 2
    /\ adapterObs.entry > 0

(***************************************************************************)
(* Claims about the circuit breaker (checked under SpecCB).                *)
(***************************************************************************)
\* C5: counting failed calls in a row from a CLOSED circuit with failure count 0,
\* the circuit is OPEN once FailureThreshold of them have completed and is still
\* CLOSED after any smaller number.
C5_OpenAtThreshold ==
    fromClosed >= 0 =>
        circuit.state = (IF fromClosed >= FailureThreshold THEN "OPEN" ELSE "CLOSED")

\* the FailureThreshold-th failure in a row has just completed
C5_Witness ==
    /\ last.ev = "failure" /\ last.from = "CLOSED"
    /\ fromClosed = FailureThreshold
    /\ circuit.state = "OPEN"

\* C6: while the circuit is OPEN and less than the timeout has passed since
\* lastFailureTime, no step invokes a wrapped function and every execute call
\* is rejected with CircuitOpenError, leaving the circuit OPEN.
C6_FailFastWhileOpen ==
    [][(circuit.state = "OPEN" /\ now - circuit.lastFailureTime < TimeoutTicks)
         => /\ inFlight' + trials' <= inFlight + trials
            /\ calls' = calls + 1 => (rejected' = rejected + 1 /\ circuit' = circuit)]_vars

\* an execute call has just been rejected by the OPEN circuit
C6_Witness ==
    /\ last.ev = "reject"
    /\ circuit.state = "OPEN"
    /\ now - circuit.lastFailureTime < TimeoutTicks
    /\ rejected > 0

\* C7 (as claimed): at most one call invoked in HALF_OPEN is in flight at a time.
C7_SingleTrial == trials <= 1

\* C8: counting successful calls in a row from the OPEN -> HALF_OPEN transition,
\* the circuit is CLOSED with both counts at 0 once SuccessThreshold of them
\* have completed, and is still HALF_OPEN (counting them) after fewer.
C8_CloseAfterSuccesses ==
    hoSucc >= 0 =>
        IF hoSucc >= SuccessThreshold
        THEN circuit.state = "CLOSED" /\ circuit.failures = 0 /\ circuit.successes = 0
        ELSE circuit.state = "HALF_OPEN" /\ circuit.successes = hoSucc

\* the SuccessThreshold-th success in a row has just completed in HALF_OPEN
C8_Witness ==
    /\ last.ev = "success" /\ last.from = "HALF_OPEN"
    /\ hoSucc = SuccessThreshold
    /\ circuit.state = "CLOSED"

\* C9: right after a failure that completed in HALF_OPEN the circuit is OPEN,
\* lastFailureTime is the time of that failure and successes is 0; and the
\* circuit leaves OPEN for HALF_OPEN again only a full timeout after it.
C9_ReopenOnHalfOpenFailure ==
    /\ []((last.ev = "failure" /\ last.from = "HALF_OPEN")
            => /\ circuit.state = "OPEN"
               /\ circuit.lastFailureTime = now /\ reopenedAt = now
               /\ circuit.successes = 0)
    /\ [][(circuit.state = "OPEN" /\ circuit'.state = "HALF_OPEN" /\ reopenedAt >= 0)
            => now - reopenedAt >= TimeoutTicks]_vars

\* a trial is under way after an earlier trial failed and reopened the circuit
C9_Witness ==
    /\ reopenedAt >= 0
    /\ circuit.state = "HALF_OPEN"
    /\ last.ev = "invoke" /\ last.from = "OPEN"

\* C10: right after a success that completed in CLOSED the failure count is 0,
\* whatever it was; so in CLOSED the count is the number of failures since the
\* last success, and it stays below the threshold.
C10_SuccessClearsFailures ==
    /\ (last.ev = "success" /\ last.from = "CLOSED")
          => (circuit.failures = 0 /\ circuit.state = "CLOSED")
    /\ circuit.state = "CLOSED"
          => (circuit.failures = streak /\ circuit.failures < FailureThreshold)

\* a success has just completed in CLOSED with FailureThreshold - 1 failures counted
C10_Witness ==
    /\ last.ev = "success" /\ last.from = "CLOSED"
    /\ last.fails = FailureThreshold - 1
    /\ circuit.failures = 0

\* C28: every change of the circuit's state made by an execute call (its entry,
\* or the success or failure of its function, whenever that arrives) is CLOSED
\* to OPEN, OPEN to HALF_OPEN, HALF_OPEN to OPEN or HALF_OPEN to CLOSED.
C28_TransitionsOfExecute ==
    [][circuit'.state # circuit.state /\ last'.ev # "reset" =>
          <<circuit.state, circuit'.state>> \in
             { <<"CLOSED", "OPEN">>, <<"OPEN", "HALF_OPEN">>,
               <<"HALF_OPEN", "OPEN">>, <<"HALF_OPEN", "CLOSED">> }]_vars

\* a trial call has just failed and reopened the circuit while calls admitted
\* before it opened are still in flight
C28_Witness ==
    /\ last.ev = "failure" /\ last.from = "HALF_OPEN"
    /\ circuit.state = "OPEN"
    /\ inFlight > 0

\* C39: a call rejected by the OPEN circuit leaves the circuit as it was, and
\* lastFailureTime changes only when a wrapped function fails: so, rejections or
\* not, the circuit leaves OPEN for HALF_OPEN at the first call a full timeout
\* after the last failure.
C39_RejectLeavesCircuit ==
    [][/\ last'.ev = "reject" => circuit' = circuit
       /\ circuit'.lastFailureTime # circuit.lastFailureTime => last'.ev = "failure"
       /\ (calls' = calls + 1 /\ circuit.state = "OPEN"
             /\ now - circuit.lastFailureTime >= TimeoutTicks) => circuit'.state = "HALF_OPEN"]_vars

\* two calls have been rejected, the last of them one tick before the timeout
C39_Witness ==
    /\ last.ev = "reject"
    /\ rejected >= 2
    /\ circuit.state = "OPEN"
    /\ now - circuit.lastFailureTime = TimeoutTicks - 1

\* C40: the success count is non-zero only in HALF_OPEN and always below
\* SuccessThreshold, and in CLOSED the failure count is below FailureThreshold.
C40_CountsInRange ==
    /\ circuit.successes # 0 => circuit.state = "HALF_OPEN"
    /\ circuit.successes >= 0 /\ circuit.successes < SuccessThreshold
    /\ circuit.state = "CLOSED" => circuit.failures < FailureThreshold

\* a trial has failed and reopened the circuit, after a success had cleared the
\* failure count, while another trial is still in flight
C40_Witness ==
    /\ last.ev = "failure" /\ last.from = "HALF_OPEN"
    /\ hoSucc = -1 /\ trials > 0
    /\ circuit.state = "OPEN"
    /\ circuit.successes = 0 /\ circuit.failures = 1

====
